---------------------------- MODULE Spec2Model ----------------------------
(***************************************************************************)
(* Network driver of the multimodal acoustic simulator                     *)
(* (miniVTL3D/sources/Backend/Acoustic3dSimulation.cpp).                   *)
(*                                                                         *)
(* The model follows the simulator object through geometry imports,        *)
(* parameter changes, transfer-function sweeps (computeTransferFunction)   *)
(* and acoustic-field computations (computeAcousticField).  The numerical  *)
(* content of a matrix is abstracted by a stamp that names the solve which *)
(* wrote it, relative to the solve that is running: "none" (never          *)
(* written), "old" (written by a solve that has returned), and for the     *)
(* frequency being solved "g" (glottal-source solve), "n" (noise-source    *)
(* re-solve) or "cur" (precomputation of this solve).  A transfer          *)
(* function row holds the class of the value written for the frequency     *)
(* being solved ("finite", "nan", "inf"), "set" for a row written at an    *)
(* earlier frequency of the running sweep, "unset" otherwise.  Everything  *)
(* else (flags, loop bounds, loop order, direction tags, section indices)  *)
(* is kept as in the code.  Section indices are 0-based as in the C++      *)
(* code.                                                                   *)
(***************************************************************************)
EXTENDS Integers, Sequences, FiniteSets, TLC

(***************************************************************************)
(* Bounds of the model                                                     *)
(***************************************************************************)
\* largest number of sections a geometry file produces
MaxSec == 3
\* number of frequencies of a sweep (m_numFreqComputed)
NumFreq == 2
\* largest number of modes a section retains
MaxModes == 2

\* smallest number of sections createCrossSections builds (two contours)
MinSec == 2

\* number of threads that call getInstance
NumThreads == 3

\* largest number of slices of a geometry file
MaxSlices == 3

\* largest number of points of a contour of a geometry file
MaxVertices == 11

\* largest abscissa of a centerline point of a file
MaxCoord == 2

\* largest radius or height given to a helper generator
MaxRadius == 3

\* largest number of eigenvalues of a solved eigenproblem
MaxNumEigen == 3

\* largest eigenvalue
MaxEigenvalue == 2

(***************************************************************************)
(* Enumerations                                                            *)
(***************************************************************************)
\* enum openEndBoundaryCond
MouthBoundaryConds ==
  {"RADIATION", "ADMITTANCE_1", "ZERO_PRESSURE", "IFINITE_WAVGUIDE", "HARD_WALL"}

\* a geometry file is abstracted by the number of sections it yields;
\* 0 stands for a file that cannot be parsed
GeometryFiles == {0} \cup (MinSec..MaxSec)

\* the number of modes the modal solver retains for section k of a geometry
\* (a function of the section's contour and of the cut-on frequency)
NumberOfModes(geo, k) == 1 + ((geo + k) % MaxModes)

\* m_idxSecNoiseSource as set by the constructor
DefaultNoiseIdx == 25

\* values a caller passes as noise source section index: negative, the first
\* sections, and the constructor's value which lies past the last section
NoiseIdxInputs == {-1, 0, 1, DefaultNoiseIdx}

\* stamp of an array that was never written (empty vector)
NoStamp == "none"

\* a section as built by the constructors of CrossSection2d / CrossSection2dFEM
NewSection ==
  [ modesNumber |-> 0,
    modes |-> NoStamp,      \* m_modes, m_eigenFreqs, C, D, E, KR2
    junc  |-> NoStamp,      \* last call of computeJunctionMatrices on it
    F     |-> NoStamp,      \* m_F (empty until a junction is computed)
    Z |-> NoStamp, Y |-> NoStamp, Q |-> NoStamp, P |-> NoStamp,
    Zdir |-> -1, Ydir |-> -1, Qdir |-> 1, Pdir |-> 1 ]

VARIABLES
  m_crossSections,      \* sequence of sections
  m_geometryImported,
  m_reloadGeometry,
  m_geometryFile,
  m_simuParams,         \* the flags of struct simulationParameters
  m_mouthBoundaryCond,
  m_idxSecNoiseSource,
  m_radiationMatrixInterp, \* the spline coefficients: solve and geometry they come from
  m_glottalSourceTF,
  m_noiseSourceTF,
  pc,                   \* position inside the running driver function
  frame,                \* locals of the running driver function
  radMat,               \* radImped / radAdmit of solveWaveProblem
  importResult,         \* last value returned by importGeometry
  importFailed,         \* an import failed and none succeeded since
  m_lastFreqComputed,   \* "cur": the frequency being solved, "other" otherwise
  instance,             \* Acoustic3dSimulation::instance (0 is NULL)
  threads,              \* callers of getInstance
  csv,                  \* activation of extractContoursFromCsvFile
  build,                \* activation of the section loop of createCrossSections
  query,                \* activation of acousticField(Point_3)
  magnus,               \* activation of propagateMagnus
  exportGeo,            \* activation of exportGeoInCsv
  generator,            \* activation of a helper generator
  branch,               \* activation of propagateImpedAdmitBranch
  modal                 \* one call of CrossSection2dFEM::computeModes

\* the simulator object and the driver function that runs on it
simulatorVars ==
  << m_crossSections, m_geometryImported, m_reloadGeometry,
     m_geometryFile, m_simuParams, m_mouthBoundaryCond,
     m_idxSecNoiseSource, m_radiationMatrixInterp, m_glottalSourceTF,
     m_noiseSourceTF, pc, frame, radMat, importResult,
     importFailed, m_lastFreqComputed >>

\* the functions that are followed on their own, outside a driver run
auxVars == << instance, threads, csv, build, query, magnus, exportGeo,
             generator, branch, modal >>

vars == << simulatorVars, auxVars >>

simVars == << m_crossSections, m_geometryImported, m_reloadGeometry,
              m_geometryFile, m_simuParams, m_mouthBoundaryCond,
              m_idxSecNoiseSource, m_radiationMatrixInterp >>

numSec == Len(m_crossSections)
lastSec == numSec - 1
Sec(k) == m_crossSections[k + 1]
SecIdx == 0..lastSec

NoFrame ==
  [ caller |-> "none", i |-> 0, s |-> 0, startSec |-> 0, endSec |-> 0,
    dir |-> 0, kind |-> "none", precomputeRadImped |-> FALSE,
    needToExtractMatrixF |-> FALSE, foundFlag |-> FALSE, propFail |-> FALSE,
    nbModesComp |-> 0, nbSplineComp |-> 0, startNeed |-> FALSE,
    startSpline |-> FALSE ]

\* m_radiationMatrixInterp before any precomputation
NoSpline == [ stamp |-> NoStamp, geo |-> 0 ]

\* radImped / radAdmit as declared (0 x 0 matrices)
NoRadMat == [ defined |-> FALSE, size |-> 0, src |-> "none", coef |-> NoSpline ]

\* a transfer function none of whose rows was written by the running sweep
UnsetTF == [ f \in 0..(NumFreq - 1) |-> "unset" ]

\* no function is followed outside the driver
NoCall == [ pc |-> "none" ]

\* none of the functions followed on their own is active
InitAux ==
  /\ instance = 0
  /\ threads = << >>
  /\ csv = NoCall
  /\ build = NoCall
  /\ query = NoCall
  /\ magnus = NoCall
  /\ exportGeo = NoCall
  /\ generator = NoCall
  /\ branch = NoCall
  /\ modal = NoCall

\* Acoustic3dSimulation::Acoustic3dSimulation()
InitSimulator ==
  /\ m_crossSections = << >>
  /\ m_geometryImported = FALSE
  /\ m_reloadGeometry = TRUE
  /\ m_geometryFile = 0
  /\ m_simuParams = [ needToComputeModesAndJunctions |-> TRUE,
                      radImpedPrecomputed |-> FALSE,
                      freqField |-> "other" ]
  /\ m_mouthBoundaryCond = "RADIATION"
  /\ m_idxSecNoiseSource = DefaultNoiseIdx
  /\ m_radiationMatrixInterp = NoSpline
  /\ m_glottalSourceTF = UnsetTF
  /\ m_noiseSourceTF = UnsetTF
  /\ pc = "idle"
  /\ frame = NoFrame
  /\ radMat = NoRadMat
  /\ importResult = "none"
  /\ importFailed = FALSE
  /\ m_lastFreqComputed = "other"

Init == InitSimulator /\ InitAux

(***************************************************************************)
(* Geometry import                                                         *)
(***************************************************************************)

\* Selecting a geometry file (inline setters of Acoustic3dSimulation.h):
\* the file name is stored, the geometry is marked as imported from file
\* and a reload is requested.
setGeometryFile(file) ==
  /\ pc = "idle"
  /\ m_geometryFile' = file
  /\ m_geometryImported' = TRUE
  /\ m_reloadGeometry' = TRUE
  /\ UNCHANGED << m_crossSections, m_simuParams, m_mouthBoundaryCond,
                  m_idxSecNoiseSource, m_radiationMatrixInterp,
                  m_glottalSourceTF, m_noiseSourceTF, pc, frame, radMat,
                  importResult, importFailed >>
  /\ UNCHANGED << m_lastFreqComputed, auxVars >>

\* extractContoursFromCsvFile: TRUE iff the file is parsed into >= 2 contours
extractContoursFromCsvFile(file) == file # 0

\* the sections createCrossSections pushes for a parsed file
BuiltSections(file) == [ k \in 1..file |-> NewSection ]

\* the check of the noise source index that ends createCrossSections; the
\* index is compared with size(), an unsigned number, so that a negative
\* index compares as one past every section
ClampNoiseIdx(idx, n) ==
  IF idx < 0 \/ idx >= n THEN (IF n - 1 > 0 THEN n - 1 ELSE 0) ELSE idx

\* createCrossSections(tract, false): result, section list and noise index
createCrossSections ==
  IF ~m_geometryImported
    THEN [ ok |-> FALSE, secs |-> << >>, idx |-> m_idxSecNoiseSource ]
    ELSE IF ~extractContoursFromCsvFile(m_geometryFile)
      THEN [ ok |-> FALSE, secs |-> m_crossSections, idx |-> m_idxSecNoiseSource ]
      ELSE [ ok |-> TRUE, secs |-> BuiltSections(m_geometryFile),
             idx |-> ClampNoiseIdx(m_idxSecNoiseSource, m_geometryFile) ]

\* Acoustic3dSimulation::importGeometry
importGeometry ==
  /\ pc = "idle"
  /\ IF m_reloadGeometry
       THEN LET r == createCrossSections IN
            /\ m_crossSections' = r.secs
            /\ m_idxSecNoiseSource' = r.idx
            /\ m_reloadGeometry' = FALSE
            /\ importResult' = IF r.ok THEN "true" ELSE "false"
            /\ importFailed' = ~r.ok
       ELSE /\ importResult' = "true"
            /\ UNCHANGED << m_crossSections, m_idxSecNoiseSource,
                            m_reloadGeometry, importFailed >>
  /\ UNCHANGED << m_geometryImported, m_geometryFile, m_simuParams,
                  m_mouthBoundaryCond, m_radiationMatrixInterp,
                  m_glottalSourceTF, m_noiseSourceTF, pc, frame, radMat >>
  /\ UNCHANGED << m_lastFreqComputed, auxVars >>

\* Acoustic3dSimulation::setSimulationParameters.  The struct handed in is
\* the simulator's own struct edited by the caller: a caller may raise the
\* recompute request and may drop the "spline precomputed" mark, it cannot
\* announce results that were never computed.
setSimulationParameters(secNoiseSource, need, radPre, cond) ==
  /\ pc = "idle"
  /\ need \in {m_simuParams.needToComputeModesAndJunctions, TRUE}
  /\ radPre \in {m_simuParams.radImpedPrecomputed, FALSE}
  /\ m_idxSecNoiseSource' = secNoiseSource
  /\ m_mouthBoundaryCond' = cond
  /\ m_simuParams' = [ m_simuParams EXCEPT
                         !.needToComputeModesAndJunctions = need,
                         !.radImpedPrecomputed = radPre ]
  /\ UNCHANGED << m_crossSections, m_geometryImported, m_reloadGeometry,
                  m_geometryFile, m_radiationMatrixInterp, m_glottalSourceTF,
                  m_noiseSourceTF, pc, frame, radMat, importResult,
                  importFailed >>
  /\ UNCHANGED << m_lastFreqComputed, auxVars >>

(***************************************************************************)
(* Driver: helpers                                                         *)
(***************************************************************************)

\* section list with the fields of section k replaced
WithSec(k, rec) == [ m_crossSections EXCEPT ![k + 1] = rec ]

\* The two scalars that hold a frequency, m_lastFreqComputed and
\* m_simuParams.freqField, are "cur" when the running solve wrote the
\* frequency it solves into them and "other" else (the constructor's value,
\* a value set by the caller, the frequency of a solve that has returned).

\* a stamp once the solve that wrote it has returned
AgeStamp(x) == IF x = NoStamp THEN NoStamp ELSE "old"

\* the simulator's matrices as seen after the running solve has returned
AgedSections ==
  [ k \in 1..numSec |->
      [ m_crossSections[k] EXCEPT
          !.modes = AgeStamp(@), !.junc = AgeStamp(@), !.F = AgeStamp(@),
          !.Z = AgeStamp(@), !.Y = AgeStamp(@),
          !.Q = AgeStamp(@), !.P = AgeStamp(@) ] ]

\* a transfer function row once its iteration of the frequency loop is over
AgedTF(tf) == [ f \in 0..(NumFreq - 1) |->
                  IF tf[f] = "unset" THEN "unset" ELSE "set" ]

AgedSpline ==
  [ m_radiationMatrixInterp EXCEPT !.stamp = AgeStamp(@) ]

\* preComputeRadiationMatrices(16, lastSec), ending in computeInterpCoefRadMat
\* which sets radImpedPrecomputed
preComputeRadiationMatrices(clearFlag) ==
  /\ m_radiationMatrixInterp' = [ stamp |-> "cur", geo |-> numSec ]
  /\ m_simuParams' = [ m_simuParams EXCEPT !.radImpedPrecomputed = TRUE,
                         !.needToComputeModesAndJunctions =
                            IF clearFlag THEN FALSE ELSE @ ]

\* where a reception point lies: in section 0..lastSec, past the outlet
\* (numSec) or in none of these (-1); see acousticField
PointPlaces == -1..numSec

\* the value class acousticField returns for a reception point
FieldValues(place, failed) ==
  IF place = -1 THEN {"nan"}
  ELSE IF failed THEN {"nan", "inf"}
  ELSE {"finite"}

(***************************************************************************)
(* Driver: entry points                                                    *)
(***************************************************************************)

\* computeTransferFunction up to the first iteration of its loop
\* (precomputationsForTf)
computeTransferFunction ==
  /\ pc = "idle"
  /\ IF numSec = 0
       THEN \* movePointFromExitLandmarkToGeoLandmark reads m_crossSections.back()
            /\ pc' = "crashed"
            /\ UNCHANGED frame
       ELSE /\ pc' = "solve"
            /\ frame' = [ NoFrame EXCEPT !.caller = "tf",
                            !.precomputeRadImped = TRUE,
                            !.needToExtractMatrixF = TRUE,
                            !.startNeed =
                               m_simuParams.needToComputeModesAndJunctions,
                            !.startSpline = m_simuParams.radImpedPrecomputed ]
  /\ UNCHANGED << simVars, m_glottalSourceTF, m_noiseSourceTF, radMat,
                  importResult, importFailed >>
  /\ UNCHANGED << m_lastFreqComputed, auxVars >>

\* computeAcousticField up to its call of solveWaveProblem
computeAcousticField ==
  /\ pc = "idle"
  /\ pc' = "solve"
  /\ frame' = [ NoFrame EXCEPT !.caller = "field",
                  !.startNeed = m_simuParams.needToComputeModesAndJunctions,
                  !.startSpline = m_simuParams.radImpedPrecomputed ]
  /\ UNCHANGED << simVars, m_glottalSourceTF, m_noiseSourceTF, radMat,
                  importResult, importFailed >>
  /\ UNCHANGED << m_lastFreqComputed, auxVars >>

(***************************************************************************)
(* Driver: solveWaveProblem with precomputation                            *)
(***************************************************************************)

\* test of the recompute flag and the setModesNumber(0) loop
SolveEntry ==
  /\ pc = "solve"
  /\ IF m_simuParams.needToComputeModesAndJunctions
       THEN /\ m_crossSections' =
                 [ k \in 1..numSec |->
                     [ m_crossSections[k] EXCEPT !.modesNumber = 0 ] ]
            /\ frame' = [ frame EXCEPT !.foundFlag = TRUE,
                            !.nbModesComp = @ + 1 ]
            /\ pc' = "modes"
       ELSE /\ frame' = [ frame EXCEPT !.foundFlag = FALSE ]
            /\ pc' = "radcheck"
            /\ UNCHANGED m_crossSections
  /\ UNCHANGED << m_geometryImported, m_reloadGeometry, m_geometryFile,
                  m_simuParams, m_mouthBoundaryCond, m_idxSecNoiseSource,
                  m_radiationMatrixInterp, m_glottalSourceTF, m_noiseSourceTF,
                  radMat, importResult, importFailed >>
  /\ UNCHANGED << m_lastFreqComputed, auxVars >>

\* computeMeshAndModes with a loop that starts at the second section
computeMeshAndModes_FromSecond ==
  /\ pc = "modes"
  /\ m_crossSections' =
       [ k \in 1..numSec |->
           IF k = 1 THEN m_crossSections[k]
           ELSE [ m_crossSections[k] EXCEPT !.modes = "cur",
                    !.modesNumber = NumberOfModes(numSec, k - 1) ] ]
  /\ pc' = "junctions"
  /\ UNCHANGED << m_geometryImported, m_reloadGeometry, m_geometryFile,
                  m_simuParams, m_mouthBoundaryCond, m_idxSecNoiseSource,
                  m_radiationMatrixInterp, m_glottalSourceTF, m_noiseSourceTF,
                  frame, radMat, importResult, importFailed >>
  /\ UNCHANGED << m_lastFreqComputed, auxVars >>

\* the loop over computeMeshAndModes(i)
computeMeshAndModes ==
  /\ pc = "modes"
  /\ m_crossSections' =
       [ k \in 1..numSec |->
           [ m_crossSections[k] EXCEPT !.modes = "cur",
               !.modesNumber = NumberOfModes(numSec, k - 1) ] ]
  /\ pc' = "junctions"
  /\ UNCHANGED << m_geometryImported, m_reloadGeometry, m_geometryFile,
                  m_simuParams, m_mouthBoundaryCond, m_idxSecNoiseSource,
                  m_radiationMatrixInterp, m_glottalSourceTF, m_noiseSourceTF,
                  frame, radMat, importResult, importFailed >>
  /\ UNCHANGED << m_lastFreqComputed, auxVars >>

\* computeJunctionMatrices in a recompute block that never clears the flag
computeJunctionMatrices_KeepFlag ==
  /\ pc = "junctions"
  /\ m_crossSections' =
       [ k \in 1..numSec |->
           [ m_crossSections[k] EXCEPT !.junc = "cur",
               !.F = IF k - 1 < lastSec THEN "cur" ELSE @ ] ]
  /\ pc' = IF frame.precomputeRadImped /\ m_mouthBoundaryCond = "RADIATION"
             THEN "radblock" ELSE "radcheck"
  /\ UNCHANGED << m_geometryImported, m_reloadGeometry, m_geometryFile,
                  m_simuParams, m_mouthBoundaryCond, m_idxSecNoiseSource,
                  m_radiationMatrixInterp, m_glottalSourceTF, m_noiseSourceTF,
                  frame, radMat, importResult, importFailed >>
  /\ UNCHANGED << m_lastFreqComputed, auxVars >>

\* the loop over computeJunctionMatrices(i); the matrix F is built only for
\* a section that has a next section.  Without radiation spline to compute
\* the recompute flag is cleared right after.
computeJunctionMatrices ==
  /\ pc = "junctions"
  /\ m_crossSections' =
       [ k \in 1..numSec |->
           [ m_crossSections[k] EXCEPT !.junc = "cur",
               !.F = IF k - 1 < lastSec THEN "cur" ELSE @ ] ]
  /\ IF frame.precomputeRadImped /\ m_mouthBoundaryCond = "RADIATION"
       THEN pc' = "radblock" /\ UNCHANGED m_simuParams
       ELSE /\ pc' = "radcheck"
            /\ m_simuParams' = [ m_simuParams EXCEPT
                                   !.needToComputeModesAndJunctions = FALSE ]
  /\ UNCHANGED << m_geometryImported, m_reloadGeometry, m_geometryFile,
                  m_mouthBoundaryCond, m_idxSecNoiseSource,
                  m_radiationMatrixInterp, m_glottalSourceTF, m_noiseSourceTF,
                  frame, radMat, importResult, importFailed >>
  /\ UNCHANGED << m_lastFreqComputed, auxVars >>

\* radiation spline of the recompute block, then the flag is cleared
RadBlock ==
  /\ pc = "radblock"
  /\ preComputeRadiationMatrices(TRUE)
  /\ frame' = [ frame EXCEPT !.nbSplineComp = @ + 1 ]
  /\ pc' = "radcheck"
  /\ UNCHANGED << m_crossSections, m_geometryImported, m_reloadGeometry,
                  m_geometryFile, m_mouthBoundaryCond, m_idxSecNoiseSource,
                  m_glottalSourceTF, m_noiseSourceTF, radMat,
                  importResult, importFailed >>
  /\ UNCHANGED << m_lastFreqComputed, auxVars >>

\* radiation spline when it is requested and not yet precomputed
RadCheck ==
  /\ pc = "radcheck"
  /\ IF /\ frame.precomputeRadImped
        /\ ~m_simuParams.radImpedPrecomputed
        /\ m_mouthBoundaryCond = "RADIATION"
       THEN /\ preComputeRadiationMatrices(FALSE)
            /\ frame' = [ frame EXCEPT !.nbSplineComp = @ + 1 ]
       ELSE UNCHANGED << m_radiationMatrixInterp, m_simuParams, frame >>
  /\ pc' = "boundary"
  /\ UNCHANGED << m_crossSections, m_geometryImported, m_reloadGeometry,
                  m_geometryFile, m_mouthBoundaryCond, m_idxSecNoiseSource,
                  m_glottalSourceTF, m_noiseSourceTF, radMat,
                  importResult, importFailed >>
  /\ UNCHANGED << m_lastFreqComputed, auxVars >>

(***************************************************************************)
(* Driver: propagation                                                     *)
(***************************************************************************)

\* the direction the six-argument overloads of propagateImpedAdmit and
\* propagateVelocityPress derive from the section indices
Direction(startSection, endSection) ==
  IF startSection > endSection THEN -1 ELSE 1

\* getRadiationImpedanceAdmittance: interpolation of the stored spline when
\* radImpedPrecomputed is set, direct computation otherwise
getRadiationImpedanceAdmittance(mn) ==
  IF m_simuParams.radImpedPrecomputed
    THEN [ defined |-> TRUE, size |-> mn, src |-> "interp",
           coef |-> m_radiationMatrixInterp ]
    ELSE [ defined |-> TRUE, size |-> mn, src |-> "direct", coef |-> NoSpline ]

\* radImped / radAdmit after the switch on m_mouthBoundaryCond
MouthBoundary(mn) ==
  CASE m_mouthBoundaryCond = "RADIATION" -> getRadiationImpedanceAdmittance(mn)
    [] m_mouthBoundaryCond \in {"ADMITTANCE_1", "ZERO_PRESSURE"} ->
         [ defined |-> TRUE, size |-> mn, src |-> "const", coef |-> NoSpline ]
    [] OTHER -> NoRadMat

\* solveWaveProblem (propagation part) up to its call of propagateImpedAdmit
Boundary ==
  /\ pc = "boundary"
  /\ m_lastFreqComputed' = "cur"
  /\ IF numSec = 0
       THEN \* m_crossSections[0] of an empty vector
            /\ pc' = "crashed"
            /\ UNCHANGED << frame, radMat >>
       ELSE /\ radMat' = MouthBoundary(Sec(lastSec).modesNumber)
            /\ frame' = [ frame EXCEPT !.kind = "g", !.startSec = lastSec,
                            !.s = lastSec, !.endSec = 0,
                            !.dir = Direction(lastSec, 0) ]
            /\ pc' = "zy"
  /\ UNCHANGED << simVars, m_glottalSourceTF, m_noiseSourceTF,
                  importResult, importFailed >>
  /\ UNCHANGED auxVars

\* VelocityPressRange with the noise-source pass started at the last section
VelocityPressRange_FromLast ==
  IF frame.kind = "g"
    THEN [ from |-> 0, to |-> lastSec ]
    ELSE [ from |-> lastSec, to |-> lastSec ]

\* the sections the propagateVelocityPress call that follows the
\* impedance/admittance pass runs over
VelocityPressRange ==
  IF frame.kind = "g"
    THEN [ from |-> 0, to |-> lastSec ]
    ELSE [ from |-> IF m_idxSecNoiseSource + 1 < lastSec
                      THEN m_idxSecNoiseSource + 1 ELSE lastSec,
           to |-> lastSec ]

\* propagateImpedAdmit with a loop that stops one section before endSection
propagateImpedAdmit_StopsEarly ==
  /\ pc = "zy"
  /\ LET s == frame.s
         last == frame.endSec - frame.dir
         fromSec == IF frame.dir = -1 THEN s ELSE s - frame.dir
         missingF == s # frame.startSec /\ Sec(fromSec).F = NoStamp
     IN \E outcome \in (IF missingF THEN {"read", "fault"} ELSE {"read"}) :
          IF outcome = "fault"
            THEN /\ m_crossSections' = WithSec(s,
                      [ Sec(s) EXCEPT !.Z = NoStamp, !.Y = NoStamp,
                          !.Zdir = frame.dir, !.Ydir = frame.dir ])
                 /\ pc' = "crashed"
                 /\ UNCHANGED frame
            ELSE /\ m_crossSections' = WithSec(s,
                      [ Sec(s) EXCEPT !.Z = frame.kind, !.Y = frame.kind,
                          !.Zdir = frame.dir, !.Ydir = frame.dir ])
                 /\ IF s = last \/ s = frame.endSec
                      THEN /\ pc' = "pq"
                           /\ frame' = [ frame EXCEPT
                                !.startSec = VelocityPressRange.from,
                                !.s = VelocityPressRange.from,
                                !.endSec = VelocityPressRange.to,
                                !.dir = Direction(VelocityPressRange.from,
                                                  VelocityPressRange.to) ]
                      ELSE /\ pc' = "zy"
                           /\ frame' = [ frame EXCEPT !.s = s + frame.dir ]
  /\ UNCHANGED << m_geometryImported, m_reloadGeometry, m_geometryFile,
                  m_simuParams, m_mouthBoundaryCond, m_idxSecNoiseSource,
                  m_radiationMatrixInterp, m_glottalSourceTF, m_noiseSourceTF,
                  radMat, importResult, importFailed >>
  /\ UNCHANGED << m_lastFreqComputed, auxVars >>

\* propagateImpedAdmit that leaves the direction tags of a section as they
\* are when it propagates backward
propagateImpedAdmit_KeepsTagsBackward ==
  /\ pc = "zy"
  /\ LET s == frame.s
         fromSec == IF frame.dir = -1 THEN s ELSE s - frame.dir
         missingF == s # frame.startSec /\ Sec(fromSec).F = NoStamp
         zdir == IF frame.dir = -1 THEN Sec(s).Zdir ELSE frame.dir
         ydir == IF frame.dir = -1 THEN Sec(s).Ydir ELSE frame.dir
     IN \E outcome \in (IF missingF THEN {"read", "fault"} ELSE {"read"}) :
          IF outcome = "fault"
            THEN /\ m_crossSections' = WithSec(s,
                      [ Sec(s) EXCEPT !.Z = NoStamp, !.Y = NoStamp,
                          !.Zdir = zdir, !.Ydir = ydir ])
                 /\ pc' = "crashed"
                 /\ UNCHANGED frame
            ELSE /\ m_crossSections' = WithSec(s,
                      [ Sec(s) EXCEPT !.Z = frame.kind, !.Y = frame.kind,
                          !.Zdir = zdir, !.Ydir = ydir ])
                 /\ IF s = frame.endSec
                      THEN /\ pc' = "pq"
                           /\ frame' = [ frame EXCEPT
                                !.startSec = VelocityPressRange.from,
                                !.s = VelocityPressRange.from,
                                !.endSec = VelocityPressRange.to,
                                !.dir = Direction(VelocityPressRange.from,
                                                  VelocityPressRange.to) ]
                      ELSE /\ pc' = "zy"
                           /\ frame' = [ frame EXCEPT !.s = s + frame.dir ]
  /\ UNCHANGED << m_geometryImported, m_reloadGeometry, m_geometryFile,
                  m_simuParams, m_mouthBoundaryCond, m_idxSecNoiseSource,
                  m_radiationMatrixInterp, m_glottalSourceTF, m_noiseSourceTF,
                  radMat, importResult, importFailed >>
  /\ UNCHANGED << m_lastFreqComputed, auxVars >>

\* propagateImpedAdmit: the start section, or one iteration of the loop over
\* sections.  Reading F[0] of a section without junction matrix is undefined.
propagateImpedAdmit ==
  /\ pc = "zy"
  /\ LET s == frame.s
         fromSec == IF frame.dir = -1 THEN s ELSE s - frame.dir
         missingF == s # frame.startSec /\ Sec(fromSec).F = NoStamp
     IN \E outcome \in (IF missingF THEN {"read", "fault"} ELSE {"read"}) :
          IF outcome = "fault"
            THEN /\ m_crossSections' = WithSec(s,
                      [ Sec(s) EXCEPT !.Z = NoStamp, !.Y = NoStamp,
                          !.Zdir = frame.dir, !.Ydir = frame.dir ])
                 /\ pc' = "crashed"
                 /\ UNCHANGED frame
            ELSE /\ m_crossSections' = WithSec(s,
                      [ Sec(s) EXCEPT !.Z = frame.kind, !.Y = frame.kind,
                          !.Zdir = frame.dir, !.Ydir = frame.dir ])
                 /\ IF s = frame.endSec
                      THEN /\ pc' = "pq"
                           /\ frame' = [ frame EXCEPT
                                !.startSec = VelocityPressRange.from,
                                !.s = VelocityPressRange.from,
                                !.endSec = VelocityPressRange.to,
                                !.dir = Direction(VelocityPressRange.from,
                                                  VelocityPressRange.to) ]
                      ELSE /\ pc' = "zy"
                           /\ frame' = [ frame EXCEPT !.s = s + frame.dir ]
  /\ UNCHANGED << m_geometryImported, m_reloadGeometry, m_geometryFile,
                  m_simuParams, m_mouthBoundaryCond, m_idxSecNoiseSource,
                  m_radiationMatrixInterp, m_glottalSourceTF, m_noiseSourceTF,
                  radMat, importResult, importFailed >>
  /\ UNCHANGED << m_lastFreqComputed, auxVars >>

\* pc after the last section of propagateVelocityPress
AfterVelocityPress ==
  IF frame.caller = "field" THEN "sampleF"
  ELSE IF frame.kind = "g" THEN "sampleG" ELSE "sampleN"

\* propagateVelocityPress without the block "propagate in the last section"
propagateVelocityPress_NoLastSection ==
  /\ pc = "pq"
  /\ LET s == frame.s
         fromSec == IF frame.dir = 1 THEN s ELSE s + frame.dir
         missingF == s # frame.endSec /\ Sec(fromSec).F = NoStamp
     IN \E outcome \in (IF missingF THEN {"read", "fault"} ELSE {"read"}) :
          /\ m_crossSections' =
               IF s = frame.endSec THEN m_crossSections
               ELSE WithSec(s,
                 [ Sec(s) EXCEPT !.Q = frame.kind, !.P = frame.kind,
                     !.Qdir = frame.dir, !.Pdir = frame.dir ])
          /\ IF outcome = "fault"
               THEN pc' = "crashed" /\ UNCHANGED frame
               ELSE IF s = frame.endSec
                 THEN pc' = AfterVelocityPress /\ UNCHANGED frame
                 ELSE /\ pc' = "pq"
                      /\ frame' = [ frame EXCEPT !.s = s + frame.dir ]
  /\ UNCHANGED << m_geometryImported, m_reloadGeometry, m_geometryFile,
                  m_simuParams, m_mouthBoundaryCond, m_idxSecNoiseSource,
                  m_radiationMatrixInterp, m_glottalSourceTF, m_noiseSourceTF,
                  radMat, importResult, importFailed >>
  /\ UNCHANGED << m_lastFreqComputed, auxVars >>

\* propagateVelocityPress: one iteration of the loop over sections, or the
\* last section
propagateVelocityPress ==
  /\ pc = "pq"
  /\ LET s == frame.s
         fromSec == IF frame.dir = 1 THEN s ELSE s + frame.dir
         missingF == s # frame.endSec /\ Sec(fromSec).F = NoStamp
     IN \E outcome \in (IF missingF THEN {"read", "fault"} ELSE {"read"}) :
          /\ m_crossSections' = WithSec(s,
               [ Sec(s) EXCEPT !.Q = frame.kind, !.P = frame.kind,
                   !.Qdir = frame.dir, !.Pdir = frame.dir ])
          /\ IF outcome = "fault"
               THEN pc' = "crashed" /\ UNCHANGED frame
               ELSE IF s = frame.endSec
                 THEN pc' = AfterVelocityPress /\ UNCHANGED frame
                 ELSE /\ pc' = "pq"
                      /\ frame' = [ frame EXCEPT !.s = s + frame.dir ]
  /\ UNCHANGED << m_geometryImported, m_reloadGeometry, m_geometryFile,
                  m_simuParams, m_mouthBoundaryCond, m_idxSecNoiseSource,
                  m_radiationMatrixInterp, m_glottalSourceTF, m_noiseSourceTF,
                  radMat, importResult, importFailed >>
  /\ UNCHANGED << m_lastFreqComputed, auxVars >>

(***************************************************************************)
(* Driver: field sampling and the frequency loop                           *)
(***************************************************************************)

\* computeGlottalTf that resizes the transfer function before it writes the
\* row of the frequency
computeGlottalTf_ResizesTf ==
  /\ pc = "sampleG"
  /\ \E place \in PointPlaces, fail \in BOOLEAN :
       /\ frame' = [ frame EXCEPT !.propFail = fail ]
       /\ \E v \in FieldValues(place, fail) :
            m_glottalSourceTF' = [ UnsetTF EXCEPT ![frame.i] = v ]
  /\ m_simuParams' = [ m_simuParams EXCEPT !.freqField = "cur" ]
  /\ pc' = "noise"
  /\ UNCHANGED << m_crossSections, m_geometryImported, m_reloadGeometry,
                  m_geometryFile, m_mouthBoundaryCond, m_idxSecNoiseSource,
                  m_radiationMatrixInterp, m_noiseSourceTF, radMat,
                  importResult, importFailed >>
  /\ UNCHANGED << m_lastFreqComputed, auxVars >>

\* computeGlottalTf: the transfer function row of the frequency is the
\* field at the reception point.  Whether an inversion of the solve met a
\* singular matrix is not checked by the code; the value then holds
\* non-finite numbers.
computeGlottalTf ==
  /\ pc = "sampleG"
  /\ \E place \in PointPlaces, fail \in BOOLEAN :
       /\ frame' = [ frame EXCEPT !.propFail = fail ]
       /\ \E v \in FieldValues(place, fail) :
            m_glottalSourceTF' = [ m_glottalSourceTF EXCEPT ![frame.i] = v ]
  /\ m_simuParams' = [ m_simuParams EXCEPT !.freqField = "cur" ]
  /\ pc' = "noise"
  /\ UNCHANGED << m_crossSections, m_geometryImported, m_reloadGeometry,
                  m_geometryFile, m_mouthBoundaryCond, m_idxSecNoiseSource,
                  m_radiationMatrixInterp, m_noiseSourceTF, radMat,
                  importResult, importFailed >>
  /\ UNCHANGED << m_lastFreqComputed, auxVars >>

\* solveWaveProblemNoiseSrc up to its call of propagateImpedAdmit.  A
\* negative index makes m_crossSections[m_idxSecNoiseSource] undefined.
solveWaveProblemNoiseSrc ==
  /\ pc = "noise"
  /\ LET k == m_idxSecNoiseSource IN
     IF k < lastSec
       THEN LET undefinedRead ==
                  \/ k < 0
                  \/ frame.needToExtractMatrixF /\ Sec(k).F = NoStamp
            IN \E outcome \in (IF undefinedRead THEN {"read", "fault"}
                                                ELSE {"read"}) :
                 IF outcome = "fault"
                   THEN pc' = "crashed" /\ UNCHANGED frame
                   ELSE IF k < 0
                     THEN pc' = "nextFreq" /\ UNCHANGED frame
                     ELSE /\ pc' = "zy"
                          /\ frame' = [ frame EXCEPT !.kind = "n",
                               !.needToExtractMatrixF = FALSE,
                               !.startSec = 0, !.s = 0, !.endSec = k,
                               !.dir = Direction(0, k) ]
       ELSE pc' = "nextFreq" /\ UNCHANGED frame
  /\ UNCHANGED << simVars, m_glottalSourceTF, m_noiseSourceTF, radMat,
                  importResult, importFailed >>
  /\ UNCHANGED << m_lastFreqComputed, auxVars >>

\* computeNoiseSrcTf
computeNoiseSrcTf ==
  /\ pc = "sampleN"
  /\ \E place \in PointPlaces, fail \in BOOLEAN :
       \E v \in FieldValues(place, fail) :
         m_noiseSourceTF' = [ m_noiseSourceTF EXCEPT ![frame.i] = v ]
  /\ pc' = "nextFreq"
  /\ UNCHANGED << simVars, frame, m_glottalSourceTF, radMat,
                  importResult, importFailed >>
  /\ UNCHANGED << m_lastFreqComputed, auxVars >>

\* end of an iteration of the loop over frequencies of
\* computeTransferFunction, and its return after the last one
NextFreq ==
  /\ pc = "nextFreq"
  /\ m_crossSections' = AgedSections
  /\ m_radiationMatrixInterp' = AgedSpline
  /\ radMat' = NoRadMat
  /\ IF frame.i + 1 < NumFreq
       THEN /\ pc' = "solve"
            /\ frame' = [ frame EXCEPT !.i = @ + 1, !.kind = "none",
                            !.foundFlag = FALSE, !.propFail = FALSE,
                            !.s = 0, !.startSec = 0, !.endSec = 0, !.dir = 0 ]
            /\ m_glottalSourceTF' = AgedTF(m_glottalSourceTF)
            /\ m_noiseSourceTF' = AgedTF(m_noiseSourceTF)
       ELSE /\ pc' = "idle"
            /\ frame' = NoFrame
            /\ m_glottalSourceTF' = UnsetTF
            /\ m_noiseSourceTF' = UnsetTF
  /\ m_simuParams' = [ m_simuParams EXCEPT !.freqField = "other" ]
  /\ m_lastFreqComputed' = "other"
  /\ UNCHANGED << m_geometryImported, m_reloadGeometry, m_geometryFile,
                  m_mouthBoundaryCond, m_idxSecNoiseSource,
                  importResult, importFailed >>
  /\ UNCHANGED auxVars

\* acousticFieldInPlane at the end of computeAcousticField
acousticFieldInPlane ==
  /\ pc = "sampleF"
  /\ pc' = "idle"
  /\ frame' = NoFrame
  /\ radMat' = NoRadMat
  /\ m_crossSections' = AgedSections
  /\ m_radiationMatrixInterp' = AgedSpline
  /\ m_lastFreqComputed' = "other"
  /\ UNCHANGED << m_geometryImported, m_reloadGeometry, m_geometryFile,
                  m_simuParams, m_mouthBoundaryCond, m_idxSecNoiseSource,
                  m_glottalSourceTF, m_noiseSourceTF,
                  importResult, importFailed >>
  /\ UNCHANGED auxVars

(***************************************************************************)
(* Specification                                                           *)
(***************************************************************************)

Configure ==
  \E idx \in NoiseIdxInputs, need \in BOOLEAN, radPre \in BOOLEAN,
     cond \in MouthBoundaryConds :
       setSimulationParameters(idx, need, radPre, cond)

SelectFile == \E file \in GeometryFiles : setGeometryFile(file)

Next ==
  \/ SelectFile
  \/ importGeometry
  \/ Configure
  \/ computeTransferFunction
  \/ computeAcousticField
  \/ SolveEntry
  \/ computeMeshAndModes
  \/ computeJunctionMatrices
  \/ RadBlock
  \/ RadCheck
  \/ Boundary
  \/ propagateImpedAdmit
  \/ propagateVelocityPress
  \/ computeGlottalTf
  \/ solveWaveProblemNoiseSrc
  \/ computeNoiseSrcTf
  \/ NextFreq
  \/ acousticFieldInPlane

Spec == Init /\ [][Next]_vars

(***************************************************************************)
(* Numbers and their text                                                  *)
(*                                                                         *)
(* A number of a geometry file is a decimal m * 10^e, kept normalised (m   *)
(* has no trailing zero).  A field of a file is its text, a sequence of    *)
(* characters.  Reading a field (std::stod) and writing a number           *)
(* (operator<< of a stream with the default precision) are modelled        *)
(* character by character.                                                 *)
(***************************************************************************)

\* precision of a stream that was given none
StreamPrecision == 6

\* largest decimal exponent of a double
MaxDoubleExp == 308

RECURSIVE Pow10(_)
Pow10(n) == IF n <= 0 THEN 1 ELSE 10 * Pow10(n - 1)

RECURSIVE NumDigits(_)
NumDigits(n) == IF n < 10 THEN 1 ELSE 1 + NumDigits(n \div 10)

Abs(n) == IF n < 0 THEN -n ELSE n

RECURSIVE Dec(_, _)
\* the number m * 10^e
Dec(m, e) ==
  IF m = 0 THEN [ m |-> 0, e |-> 0 ]
  ELSE IF m % 10 = 0 THEN Dec(m \div 10, e + 1)
  ELSE [ m |-> m, e |-> e ]

\* product of two numbers
Mul(a, b) == Dec(a.m * b.m, a.e + b.e)

DigitChars == << "0", "1", "2", "3", "4", "5", "6", "7", "8", "9" >>

IsDigit(c) == \E d \in 1..10 : DigitChars[d] = c

DigitVal(c) == (CHOOSE d \in 1..10 : DigitChars[d] = c) - 1

\* std::isspace
IsSpace(c) == c \in {" ", "\t", "\n", "\r"}

RECURSIVE DigitsOf(_)
\* decimal digits of a natural number
DigitsOf(n) ==
  IF n < 10 THEN << DigitChars[n + 1] >>
  ELSE Append(DigitsOf(n \div 10), DigitChars[(n % 10) + 1])

RECURSIVE Zeros(_)
Zeros(n) == IF n <= 0 THEN << >> ELSE << "0" >> \o Zeros(n - 1)

\* the magnitude a of a number of n digits and exponent e, rounded half up
\* to StreamPrecision significant digits
RoundToPrecision(a, n, e) ==
  IF n > StreamPrecision
    THEN Dec((a + 5 * Pow10(n - StreamPrecision - 1))
               \div Pow10(n - StreamPrecision),
             e + n - StreamPrecision)
    ELSE [ m |-> a, e |-> e ]

\* the digits digs with decimal exponent X in exponent notation
Scientific(digs, X) ==
  << digs[1] >>
  \o (IF Len(digs) > 1 THEN << "." >> \o Tail(digs) ELSE << >>)
  \o << "e", IF X < 0 THEN "-" ELSE "+" >>
  \o (IF Abs(X) < 10 THEN << "0" >> ELSE << >>)
  \o DigitsOf(Abs(X))

\* the digits digs, to be scaled by 10^e, in fixed notation
Fixed(digs, e) ==
  IF e >= 0 THEN digs \o Zeros(e)
  ELSE IF Len(digs) + e > 0
    THEN SubSeq(digs, 1, Len(digs) + e) \o << "." >>
         \o SubSeq(digs, Len(digs) + e + 1, Len(digs))
    ELSE << "0", "." >> \o Zeros(-(Len(digs) + e)) \o digs

\* the text of the rounded magnitude r, whose digits are digs: exponent
\* notation when the decimal exponent is below -4 or not below the precision
FormatRounded(r, digs) ==
  IF r.m = 0 THEN << "0" >>
  ELSE IF Len(digs) - 1 + r.e < -4 \/ Len(digs) - 1 + r.e >= StreamPrecision
    THEN Scientific(digs, Len(digs) - 1 + r.e)
  ELSE Fixed(digs, r.e)

\* operator<<(double) with the default format: StreamPrecision significant
\* digits, trailing zeros dropped
FormatDouble(v) ==
  (IF v.m < 0 THEN << "-" >> ELSE << >>)
  \o FormatRounded(RoundToPrecision(Abs(v.m), NumDigits(Abs(v.m)), v.e),
                   DigitsOf(RoundToPrecision(Abs(v.m), NumDigits(Abs(v.m)),
                                             v.e).m))

RECURSIVE SkipSpace(_, _)
\* index of the first character at or after i that is no white space
SkipSpace(str, i) ==
  IF i <= Len(str) /\ IsSpace(str[i]) THEN SkipSpace(str, i + 1) ELSE i

RECURSIVE ScanDigits(_, _)
\* index of the first character at or after i that is no digit
ScanDigits(str, i) ==
  IF i <= Len(str) /\ IsDigit(str[i]) THEN ScanDigits(str, i + 1) ELSE i

RECURSIVE DigitsValue(_, _, _)
\* value of the digits str[i..j-1]
DigitsValue(str, i, j) ==
  IF j <= i THEN 0
  ELSE 10 * DigitsValue(str, i, j - 1) + DigitVal(str[j - 1])

\* character i of str exists and is one of chars
HasChar(str, i, chars) == i <= Len(str) /\ str[i] \in chars

\* index after the sign that may stand at i
SkipSign(str, i) == IF HasChar(str, i, {"+", "-"}) THEN i + 1 ELSE i

\* what std::stod returns or throws; next is the index after the prefix
\* that was converted
Thrown(what) == [ thrown |-> what, value |-> Dec(0, 0), next |-> 1 ]

\* a value outside the range of double throws out_of_range
stodRange(val, next) ==
  IF val.m # 0 /\ NumDigits(Abs(val.m)) - 1 + val.e > MaxDoubleExp
    THEN Thrown("out_of_range")
    ELSE [ thrown |-> "none", value |-> val, next |-> next ]

\* the exponent: "e" or "E" at iM, an optional sign and the digits
\* str[i5..i6-1]; without digits the "e" is not part of the number
stodExponent(str, mant, nFrac, iM, i5, i6) ==
  IF HasChar(str, iM, {"e", "E"}) /\ i6 > i5
    THEN stodRange(Dec(mant, (IF HasChar(str, iM + 1, {"-"}) THEN -1 ELSE 1)
                               * DigitsValue(str, i5, i6) - nFrac),
                   i6)
    ELSE stodRange(Dec(mant, -nFrac), iM)

\* the mantissa: digits str[i1..i2-1], and after a "." the digits
\* str[i2+1..i3-1]; without any digit nothing is converted
stodMantissa(str, neg, i1, i2, hasDot, i3) ==
  IF (i2 - i1) + (IF hasDot THEN i3 - (i2 + 1) ELSE 0) = 0
    THEN Thrown("invalid_argument")
  ELSE IF hasDot
    THEN stodExponent(str,
           (IF neg THEN -1 ELSE 1)
             * (DigitsValue(str, i1, i2) * Pow10(i3 - (i2 + 1))
                  + DigitsValue(str, i2 + 1, i3)),
           i3 - (i2 + 1), i3, SkipSign(str, i3 + 1),
           ScanDigits(str, SkipSign(str, i3 + 1)))
  ELSE stodExponent(str, (IF neg THEN -1 ELSE 1) * DigitsValue(str, i1, i2),
                    0, i2, SkipSign(str, i2 + 1),
                    ScanDigits(str, SkipSign(str, i2 + 1)))

\* the number that starts at i1, after the sign
stodDigits(str, neg, i1, i2) ==
  stodMantissa(str, neg, i1, i2, HasChar(str, i2, {"."}),
               ScanDigits(str, i2 + 1))

\* std::stod: white space is skipped, the longest prefix that reads as a
\* number is converted and what follows it is ignored; no such prefix
\* throws invalid_argument
stod(str) ==
  stodDigits(str, HasChar(str, SkipSpace(str, 1), {"-"}),
             SkipSign(str, SkipSpace(str, 1)),
             ScanDigits(str, SkipSign(str, SkipSpace(str, 1))))

(***************************************************************************)
(* extractContoursFromCsvFile                                              *)
(*                                                                         *)
(* A file is a sequence of lines, a line the sequence of the fields that   *)
(* getline(stream, field, ';') extracts from it one after the other (the   *)
(* separator that ends a line yields no field).  A slice is two lines, the *)
(* x coordinates and the y coordinates.                                    *)
(***************************************************************************)

\* fewest points of a contour the import accepts
MinVertices == 3

\* a contour with more vertices than this is simplified
SimplifyAbove == 10

\* fewest contours of a file the import accepts
MinContours == 2

\* a coordinate is a number as read from a field
IsNumber(c) == DOMAIN c = {"m", "e"}

\* Point2D::normalize for the vectors along an axis; for any other vector
\* the components of the unit vector are named, not computed
Normalize(v) ==
  IF IsNumber(v[1]) /\ IsNumber(v[2]) /\ v[1].m = 0 /\ v[2].m # 0
    THEN << Dec(0, 0), Dec(IF v[2].m < 0 THEN -1 ELSE 1, 0) >>
  ELSE IF IsNumber(v[1]) /\ IsNumber(v[2]) /\ v[2].m = 0 /\ v[1].m # 0
    THEN << Dec(IF v[1].m < 0 THEN -1 ELSE 1, 0), Dec(0, 0) >>
  ELSE << [ unitOf |-> v, c |-> 1 ], [ unitOf |-> v, c |-> 2 ] >>

\* what the lambda strToDouble makes of the outcome r of stod: the value
\* read, or the old value and the abort request when nothing can be read
\* from a field other than "\r"; an out_of_range exception is not caught
Converted(r, str, old) ==
  [ result |-> IF r.thrown = "none" THEN r.value ELSE old,
    abort |-> r.thrown = "invalid_argument" /\ str # << "\r" >>,
    thrown |-> r.thrown = "out_of_range" ]

\* the lambda strToDouble
strToDouble(str, old) == Converted(stod(str), str, old)

\* the outcomes cx and cy of two conversions in a row; the second one is
\* not made when the first one throws
Pair(cx, cy, old) ==
  [ pt |-> << cx.result, IF cx.thrown THEN old[2] ELSE cy.result >>,
    abort |-> cx.abort \/ (~cx.thrown /\ cy.abort),
    thrown |-> cx.thrown \/ cy.thrown ]

\* strToDouble on field k of the x line, then on field k of the y line
ConvPair(X, Y, k, old) ==
  Pair(strToDouble(X[k], old[1]), strToDouble(Y[k], old[2]), old)

\* abort = true; break;
Break(L) == [ L EXCEPT !.abort = TRUE ]

\* the scaling factors (field 3 of both lines), read as c
ReadScalings(L, c) ==
  [ L EXCEPT !.scalings = c.pt, !.abort = c.abort, !.thrown = c.thrown,
             !.header = TRUE ]

\* the normal (field 2 of both lines), read as c and normalised; then the
\* scaling factors
ReadNormal(L, X, Y, c) ==
  IF c.thrown THEN [ L EXCEPT !.normalVec = c.pt, !.thrown = TRUE ]
  ELSE IF Len(X) < 3 \/ Len(Y) < 3 \/ c.abort
    THEN Break([ L EXCEPT !.normalVec = Normalize(c.pt) ])
  ELSE ReadScalings([ L EXCEPT !.normalVec = Normalize(c.pt) ],
                    ConvPair(X, Y, 3, L.scalings))

\* the centerline point (field 1 of both lines), read as c; then the normal
ReadCtlPt(L, X, Y, c) ==
  IF c.thrown THEN [ L EXCEPT !.ctlPt = c.pt, !.thrown = TRUE ]
  ELSE IF Len(X) < 2 \/ Len(Y) < 2 \/ c.abort
    THEN Break([ L EXCEPT !.ctlPt = c.pt ])
  ELSE ReadNormal([ L EXCEPT !.ctlPt = c.pt ], X, Y,
                  ConvPair(X, Y, 2, L.normalVec))

\* centerline point, normal and scaling factors of a slice (fields 1 to 3
\* of both lines); L holds the locals that live across the slices
ReadHeader(L, X, Y) ==
  IF Len(X) < 1 \/ Len(Y) < 1 THEN Break(L)
  ELSE ReadCtlPt(L, X, Y, ConvPair(X, Y, 1, L.ctlPt))

\* x and y after the conversion c of a contour field
ReadXY(L, c) ==
  [ L EXCEPT !.x = c.pt[1], !.y = c.pt[2],
             !.abort = @ \/ c.abort, !.thrown = c.thrown ]

RECURSIVE ReadContour(_, _, _, _, _)
\* tmpCont.back().push_back(Point(x, y)) after the conversion c of field k,
\* unless the conversion threw or asked to abort
ReadPoint(L, X, Y, k, cont, c) ==
  IF c.thrown \/ c.abort \/ L.abort THEN [ L |-> ReadXY(L, c), cont |-> cont ]
  ELSE ReadContour(ReadXY(L, c), X, Y, k + 1, Append(cont, c.pt))

\* the loop that extracts the contour, from field k on: it ends at the end
\* of the x line or at an empty field of it
ReadContour(L, X, Y, k, cont) ==
  IF k > Len(X) \/ Len(X[k]) = 0 THEN [ L |-> L, cont |-> cont ]
  ELSE IF k > Len(Y) THEN [ L |-> Break(L), cont |-> cont ]
  ELSE ReadPoint(L, X, Y, k, cont, ConvPair(X, Y, k, << L.x, L.y >>))

\* the contour is extracted when the three points before it were read
ReadContourOf(L, X, Y) ==
  IF L.header /\ ~L.thrown THEN ReadContour(L, X, Y, 4, << >>)
  ELSE [ L |-> L, cont |-> << >> ]

\* the body of the loop over the slices on the lines X and Y
ReadLines(L, X, Y) == ReadContourOf(ReadHeader(L, X, Y), X, Y)

\* the contour without its last point when that equals the first
DropClosingPoint(cont) ==
  IF cont[1] = cont[Len(cont)] THEN SubSeq(cont, 1, Len(cont) - 1) ELSE cont

\* CGAL::Polyline_simplification_2::simplify with Stop(0.5): vertices are
\* removed until fewer than half of them are left.  Which ones the library
\* removes depends on their cost; the model lets it keep every second
\* vertex, from the first or from the second on.
SimplifyOutcomes(cont) ==
  LET c == (Len(cont) - 1) \div 2 IN
    { [ j \in 1..c |-> cont[o + 2 * (j - 1)] ] : o \in {1, 2} }

\* the contour in its final form
FinalContours(cont, simplifyContours) ==
  LET d == DropClosingPoint(cont) IN
    IF simplifyContours /\ Len(d) > SimplifyAbove
      THEN SimplifyOutcomes(d) ELSE { d }

\* the locals of extractContoursFromCsvFile when the loop over the slices
\* starts on a file; x and y are not initialised
OpenCsv(file, simplifyContours, uninit) ==
  [ pc |-> "loop", file |-> file, line |-> 1,
    simplifyContours |-> simplifyContours,
    ctlPt |-> << Dec(0, 0), Dec(0, 0) >>,
    normalVec |-> << Dec(0, 0), Dec(0, 0) >>,
    scalings |-> << Dec(0, 0), Dec(0, 0) >>,
    x |-> uninit, y |-> uninit,
    abort |-> FALSE, thrown |-> FALSE, header |-> FALSE,
    contours |-> << >>, centerLine |-> << >>, normals |-> << >>,
    scalingFactors |-> << >>,
    raw |-> << >>,            \* the points pushed for each accepted slice
    result |-> "none" ]

\* one iteration of while (getline(geoFile, line))
ReadSlice ==
  /\ csv.pc = "loop"
  /\ csv.line <= Len(csv.file)
  /\ IF csv.line + 1 > Len(csv.file)
       THEN csv' = [ csv EXCEPT !.abort = TRUE, !.pc = "end",
                                !.line = @ + 1 ]
       ELSE
         \E rc \in { ReadLines([ csv EXCEPT !.line = @ + 2,
                                            !.header = FALSE ],
                               csv.file[csv.line],
                               csv.file[csv.line + 1]) } :
           IF rc.L.thrown
             THEN csv' = [ rc.L EXCEPT !.pc = "done", !.result = "thrown" ]
           ELSE IF rc.L.abort
             THEN csv' = [ rc.L EXCEPT !.pc = "end" ]
           ELSE IF Len(rc.cont) < MinVertices
             THEN csv' = [ rc.L EXCEPT !.abort = TRUE, !.pc = "end" ]
           ELSE \E final \in FinalContours(rc.cont, csv.simplifyContours) :
                  csv' = [ rc.L EXCEPT
                    !.centerLine = Append(@, rc.L.ctlPt),
                    !.normals = Append(@, rc.L.normalVec),
                    !.scalingFactors = Append(@, rc.L.scalings),
                    !.raw = Append(@, rc.cont),
                    !.contours = Append(@, << final >>) ]
  /\ UNCHANGED << simulatorVars, instance, threads, build, query, magnus,
                  exportGeo, generator, branch, modal >>

\* after the loop: a file with fewer than two contours is refused
EndImport ==
  /\ \/ csv.pc = "end"
     \/ csv.pc = "loop" /\ csv.line > Len(csv.file)
  /\ csv' = [ csv EXCEPT !.pc = "done",
               !.abort = @ \/ Len(csv.contours) < MinContours,
               !.result = IF csv.abort \/ Len(csv.contours) < MinContours
                            THEN "false" ELSE "true" ]
  /\ UNCHANGED << simulatorVars, instance, threads, build, query, magnus,
                  exportGeo, generator, branch, modal >>

(***************************************************************************)
(* Geometry files the import is followed on                                *)
(***************************************************************************)

\* the text of a whole number as a stream writes it
F(k) == FormatDouble(Dec(k, 0))

\* slice i of a well-formed file with a contour of n points (j, j*j):
\* centerline point (i, 0), normal (0, 1), scaling factors (1, 1)
PlainSlice(i, n) ==
  << << F(i), F(0), F(1) >> \o [ j \in 1..n |-> F(j) ],
     << F(0), F(1), F(1) >> \o [ j \in 1..n |-> F(j * j) ] >>

\* fields that are no plain number: an empty field, a lone carriage return,
\* letters, a number followed by letters, a number followed by a carriage
\* return, a number too large for a double
SpecialFields ==
  { << >>, << "\r" >>, << "x" >>, << "2", "x" >>, << "7", "\r" >>,
    << "1", "e", "9", "9", "9" >> }

\* what sets a slice apart from a well-formed one: nothing, the first point
\* repeated at the end of the contour, a field added at the end of both
\* lines, a field of one line replaced, or the y line missing
Variations(n) ==
  { [ kind |-> kd, line |-> 1, k |-> 1, field |-> << >> ] :
      kd \in {"none", "close", "truncate"} }
  \cup { [ kind |-> "append", line |-> 1, k |-> 1, field |-> f ] :
           f \in SpecialFields }
  \cup { [ kind |-> "replace", line |-> l, k |-> k, field |-> f ] :
           l \in {1, 2}, k \in 1..(3 + n), f \in SpecialFields }

\* the two lines of a slice with a variation applied
Vary(slice, var) ==
  CASE var.kind = "close" ->
         << Append(slice[1], F(1)), Append(slice[2], F(1)) >>
    [] var.kind = "append" ->
         << Append(slice[1], var.field), Append(slice[2], var.field) >>
    [] var.kind = "replace" ->
         [ slice EXCEPT ![var.line][var.k] = var.field ]
    [] OTHER -> slice

\* the file of nSlices slices whose slice v has a contour of n points and
\* carries the variation; the other slices are well-formed
GeometryFile(nSlices, n, v, var) ==
  LET slice(i) == IF i = v THEN Vary(PlainSlice(i, n), var)
                  ELSE PlainSlice(i, MinVertices)
      all == [ l \in 1..(2 * nSlices) |->
                 slice((l + 1) \div 2)[2 - (l % 2)] ]
  IN IF var.kind = "truncate" THEN SubSeq(all, 1, 2 * v - 1) ELSE all

\* values an uninitialised double may hold
UninitValues == { Dec(0, 0), Dec(9, 0) }

\* extractContoursFromCsvFile is entered on a file
InitCsv ==
  /\ InitSimulator
  /\ modal = NoCall
  /\ branch = NoCall
  /\ generator = NoCall
  /\ instance = 0 /\ threads = << >>
  /\ build = NoCall /\ query = NoCall /\ magnus = NoCall
  /\ exportGeo = NoCall
  /\ \E nSlices \in 1..MaxSlices,
        n \in { MinVertices - 1, MinVertices, MaxVertices } :
       \E v \in 1..nSlices, var \in Variations(n), uninit \in UninitValues :
         csv = OpenCsv(GeometryFile(nSlices, n, v, var), TRUE, uninit)

SpecCsv == InitCsv /\ [][ReadSlice \/ EndImport]_vars

(***************************************************************************)
(* getInstance called from several threads                                 *)
(***************************************************************************)

\* a thread that has not yet entered getInstance; made is the object the
\* thread constructs (objects are numbered by the constructing thread, 0
\* is none), ret the pointer it gets back
NewThread == [ pc |-> "call", made |-> 0, ret |-> 0 ]

Threads == 1..NumThreads

\* static member initialised to NULL, no thread inside getInstance
InitInstance ==
  /\ InitSimulator
  /\ modal = NoCall
  /\ branch = NoCall
  /\ generator = NoCall
  /\ instance = 0
  /\ threads = [ t \in Threads |-> NewThread ]
  /\ csv = NoCall /\ build = NoCall /\ query = NoCall
  /\ magnus = NoCall /\ exportGeo = NoCall

\* thread t evaluates instance == NULL
getInstance_Test(t) ==
  /\ threads[t].pc = "call"
  /\ threads' = [ threads EXCEPT ![t].pc =
                    IF instance = 0 THEN "new" ELSE "return" ]
  /\ UNCHANGED << simulatorVars, instance, csv, build, query, magnus,
                  exportGeo, generator, branch, modal >>

\* thread t runs instance = new Acoustic3dSimulation()
getInstance_New(t) ==
  /\ threads[t].pc = "new"
  /\ instance' = t
  /\ threads' = [ threads EXCEPT ![t].pc = "return", ![t].made = t ]
  /\ UNCHANGED << simulatorVars, csv, build, query, magnus, exportGeo,
                  generator, branch, modal >>

\* thread t runs return instance
getInstance_Return(t) ==
  /\ threads[t].pc = "return"
  /\ threads' = [ threads EXCEPT ![t].pc = "done", ![t].ret = instance ]
  /\ UNCHANGED << simulatorVars, instance, csv, build, query, magnus,
                  exportGeo, generator, branch, modal >>

getInstance(t) ==
  \/ getInstance_Test(t)
  \/ getInstance_New(t)
  \/ getInstance_Return(t)

SpecInstance == InitInstance /\ [][\E t \in Threads : getInstance(t)]_vars

(***************************************************************************)
(* createCrossSections after a successful import                           *)
(*                                                                         *)
(* The slices lie on a straight centerline, so a centerline point is its   *)
(* abscissa, and their contours are centred on it: the recentring of       *)
(* curved geometries moves nothing and the curvature angle is zero.        *)
(* Abscissas are counted in halves of the unit of the file, which makes    *)
(* the point added in the middle of the last interval a whole number.      *)
(* Every contour is larger than MINIMAL_AREA and the area is constant      *)
(* along a section (varyingArea off), so that all scaling factors are 1.   *)
(***************************************************************************)

\* contours of a slice, each given by the intervals in which it meets the
\* sagittal plane, one after the other: a small one inside a large one, one
\* that crosses both, and a horseshoe whose two arms meet the plane and
\* whose bend lies outside all other contours
Shapes == { << -1, 1 >>, << -3, 3 >>, << 0, 4 >>, << -3, -1, 1, 3 >> }

similarContours(a, b) == a = b

\* Polygon_2::has_on_bounded_side and has_on_unbounded_side
has_on_bounded_side(cont, y) ==
  \E k \in 1..(Len(cont) \div 2) : cont[2 * k - 1] < y /\ y < cont[2 * k]

has_on_unbounded_side(cont, y) ==
  \A k \in 1..(Len(cont) \div 2) : y < cont[2 * k - 1] \/ y > cont[2 * k]

\* the boundaries of cont and prevCont cross: of the points of prevCont
\* some are inside cont and some are not
Crosses(cont, prevCont) ==
  /\ ~similarContours(cont, prevCont)
  /\ \E j \in 1..Len(prevCont) :
       has_on_bounded_side(cont, prevCont[j])
         # has_on_bounded_side(cont, prevCont[1])

\* what interval k of cont and interval l of prevCont have in common
Overlap(cont, k, prevCont, l) ==
  << IF cont[2 * k - 1] > prevCont[2 * l - 1]
       THEN cont[2 * k - 1] ELSE prevCont[2 * l - 1],
     IF cont[2 * k] < prevCont[2 * l] THEN cont[2 * k] ELSE prevCont[2 * l] >>

\* CGAL::intersection of two contours: one polygon for each piece the two
\* have in common
Intersection(cont, prevCont) ==
  SelectSeq([ n \in 1..((Len(cont) \div 2) * (Len(prevCont) \div 2)) |->
               Overlap(cont, ((n - 1) \div (Len(prevCont) \div 2)) + 1,
                       prevCont, ((n - 1) % (Len(prevCont) \div 2)) + 1) ],
            LAMBDA pol : pol[1] < pol[2])

\* CGAL::do_intersect: the two contours have a point in common
do_intersect(cont, prevCont) ==
  \E k \in 1..(Len(cont) \div 2), l \in 1..(Len(prevCont) \div 2) :
    Overlap(cont, k, prevCont, l)[1] <= Overlap(cont, k, prevCont, l)[2]

\* Point2D::getDistanceFrom for two points of the centerline
getDistanceFrom(p, q) == Abs(p - q)

RECURSIVE PathLength(_, _)
\* sum of the distances between the centerline points up to point i
PathLength(centerLine, i) ==
  IF i <= 1 THEN 0
  ELSE PathLength(centerLine, i - 1)
         + getDistanceFrom(centerLine[i - 1], centerLine[i])

\* straight geometries: the points are moved on a straight line from 0 on,
\* keeping their distances
Straighten(centerLine, curved) ==
  IF curved THEN centerLine
  ELSE [ i \in 1..Len(centerLine) |-> PathLength(centerLine, i) ]

\* the last point is doubled and the last but one moved to the middle of
\* the last interval
AddIntermediatePoint(centerLine) ==
  [ i \in 1..(Len(centerLine) + 1) |->
      IF i < Len(centerLine) THEN centerLine[i]
      ELSE IF i = Len(centerLine)
        THEN centerLine[i]
               + (centerLine[i - 1] - centerLine[i]) \div 2
      ELSE centerLine[Len(centerLine)] ]

\* new CrossSection2dFEM
addCrossSectionFEM(contour, length, ctrLinePt) ==
  [ type |-> "FEM", contour |-> contour, length |-> length,
    ctrLinePt |-> ctrLinePt, junction |-> FALSE,
    m_previousSections |-> << >>, m_nextSections |-> << >> ]

\* new CrossSection2dRadiation: it has no length of its own and answers
\* length() with the 0 of the base class
addCrossSectionRadiation(ctrLinePt) ==
  [ type |-> "Radiation", contour |-> << 0, 0 >>, length |-> 0,
    ctrLinePt |-> ctrLinePt, junction |-> FALSE,
    m_previousSections |-> << >>, m_nextSections |-> << >> ]

setJunctionSection(sec, junction) == [ sec EXCEPT !.junction = junction ]

\* intContours of iteration i: the polygons that contour i and contour i+1
\* have in common when their boundaries cross
intContours(contours, i) ==
  IF i >= 1 /\ i < Len(contours) /\ Crosses(contours[i + 1], contours[i])
    THEN Intersection(contours[i + 1], contours[i])
  ELSE << >>

\* prevSections[0] after iteration i, in which the section of contour i got
\* the index secIdx: the junction sections made in the iteration, or else
\* the section of contour i when the two contours are similar or have a
\* point in common, or else nothing
prevSections(contours, i, secIdx) ==
  IF i < 1 THEN << >>
  ELSE IF intContours(contours, i) # << >>
    THEN [ j \in 1..Len(intContours(contours, i)) |-> secIdx + j ]
  ELSE IF \/ similarContours(contours[i + 1], contours[i])
          \/ do_intersect(contours[i + 1], contours[i])
    THEN << secIdx >>
  ELSE << >>

\* the sections after iteration i of the loop over the contours: to those
\* made before are added the section of contour i, and one junction section
\* of length 0 for each polygon of intContours.  Sections are linked by
\* their indices, which count from 0.
SectionsOfSlice(made, contours, centerLine, i) ==
  made
  \o << [ addCrossSectionFEM(contours[i],
                             getDistanceFrom(centerLine[i],
                                             centerLine[i + 1]),
                             centerLine[i])
            EXCEPT
              !.m_previousSections =
                 prevSections(contours, i - 1,
                              Len(made) - 1
                                - Len(intContours(contours, i - 1))),
              !.m_nextSections =
                 IF intContours(contours, i) # << >>
                   THEN prevSections(contours, i, Len(made))
                 ELSE IF prevSections(contours, i, Len(made)) # << >>
                   THEN << Len(made) + 1 >>
                 ELSE << >> ] >>
  \o [ j \in 1..Len(intContours(contours, i)) |->
         [ setJunctionSection(
             addCrossSectionFEM(intContours(contours, i)[j], 0,
                                centerLine[i + 1]),
             TRUE)
             EXCEPT
               !.m_previousSections = << Len(made) >>,
               !.m_nextSections =
                  << Len(made) + Len(intContours(contours, i)) + 1 >> ] ]

RECURSIVE SectionsUpTo(_, _, _)
\* the sections made by the iterations up to i
SectionsUpTo(contours, centerLine, i) ==
  IF i < 1 THEN << >>
  ELSE SectionsOfSlice(SectionsUpTo(contours, centerLine, i - 1),
                       contours, centerLine, i)

\* the last section, from the intermediate point to the last point, and
\* the radiation section when one is asked for
LastSections(made, contours, centerLine, createRadSection) ==
  made
  \o << [ addCrossSectionFEM(contours[Len(contours)],
                             getDistanceFrom(
                               centerLine[Len(centerLine) - 1],
                               centerLine[Len(centerLine)]),
                             centerLine[Len(centerLine) - 1])
            EXCEPT
              !.m_previousSections =
                 prevSections(contours, Len(contours) - 1,
                              Len(made) - 1
                                - Len(intContours(contours,
                                                  Len(contours) - 1))),
              !.m_nextSections =
                 IF createRadSection THEN << Len(made) + 1 >>
                 ELSE << >> ] >>
  \o (IF createRadSection
        THEN << [ addCrossSectionRadiation(centerLine[Len(centerLine)])
                    EXCEPT !.m_previousSections = << Len(made) >> ] >>
        ELSE << >>)

\* m_crossSections as createCrossSections leaves it
CrossSectionsOf(contours, centerLine, createRadSection) ==
  LastSections(SectionsUpTo(contours, centerLine, Len(contours) - 1),
               contours, centerLine, createRadSection)

\* createCrossSections on the contours and the centerline that the import
\* gave: the sections it makes
createCrossSections_Sections ==
  /\ build.pc = "call"
  /\ build' = [ build EXCEPT
       !.pc = "done",
       !.m_crossSections =
          CrossSectionsOf(build.contours,
                          AddIntermediatePoint(
                            Straighten(build.centerLine, build.curved)),
                          build.createRadSection),
       !.result = TRUE ]
  /\ UNCHANGED << simulatorVars, instance, threads, csv, query, magnus,
                  exportGeo, generator, branch, modal >>

\* abscissas of the centerline points of a file
Abscissas == { 2 * k : k \in 0..MaxCoord }

\* the import gave at least MinContours contours, one centerline point each
InitBuild ==
  /\ InitSimulator
  /\ modal = NoCall
  /\ branch = NoCall
  /\ generator = NoCall
  /\ instance = 0 /\ threads = << >>
  /\ csv = NoCall /\ query = NoCall /\ magnus = NoCall
  /\ exportGeo = NoCall
  /\ \E n \in MinContours..MaxSlices :
       \E contours \in [ 1..n -> Shapes ], centerLine \in [ 1..n -> Abscissas ],
          curved \in BOOLEAN, createRadSection \in BOOLEAN :
         build = [ pc |-> "call", contours |-> contours,
                   centerLine |-> centerLine, curved |-> curved,
                   createRadSection |-> createRadSection,
                   m_crossSections |-> << >>, result |-> FALSE ]

SpecBuild == InitBuild /\ [][createCrossSections_Sections]_vars

(***************************************************************************)
(* acousticField at a point of the sagittal plane                          *)
(*                                                                         *)
(* The sections are those createCrossSections makes of a straight          *)
(* geometry of two slices.  A query point is given by its abscissa, in the *)
(* same halves of the unit, and by its height above the centerline.        *)
(***************************************************************************)

\* CrossSection2dFEM::ctrLinePtOut of a straight section
ctrLinePtOut(sec) ==
  IF sec.length > 0 THEN sec.ctrLinePt + sec.length ELSE sec.ctrLinePt

\* CrossSection2dFEM::getCoordinateFromCartesianPt without bounding box:
\* the point is inside a section of positive length when its abscissa in
\* the section is neither below 0 nor above the length and it is not on
\* the unbounded side of the contour.  The function of the base class,
\* which a radiation section keeps, returns false.
getCoordinateFromCartesianPt(sec, pt) ==
  /\ sec.type = "FEM"
  /\ sec.length > 0
  /\ ~(pt.x - sec.ctrLinePt > sec.length \/ pt.x - sec.ctrLinePt < 0)
  /\ ~has_on_unbounded_side(sec.contour, pt.y)

\* std::signbit of the product of two doubles, neither of which is a
\* negative zero
signbit_product(a, b) == (a < 0) # (b < 0)

\* the angle by which acousticField tells the radiation domain from the
\* sections, for a straight last section
RadiationAngle(secs, pt) ==
  IF signbit_product(pt.x - ctrLinePtOut(secs[Len(secs)]),
                     ctrLinePtOut(secs[Len(secs)])
                       - secs[Len(secs)].ctrLinePt)
    THEN -1 ELSE 1

\* indices of the sections that take the point as theirs
Accepting(secs, pt) ==
  { s \in 1..Len(secs) : getCoordinateFromCartesianPt(secs[s], pt) }

\* the loop over the sections: the field of the first section that takes
\* the point, NaN when there is none
InteriorField(secs, pt) ==
  IF Accepting(secs, pt) = { } THEN [ from |-> "NaN", s |-> 0 ]
  ELSE [ from |-> "interiorField",
         s |-> CHOOSE s \in Accepting(secs, pt) :
                 \A t \in Accepting(secs, pt) : s <= t ]

\* Acoustic3dSimulation::acousticField(Point_3)
acousticField ==
  /\ query.pc = "call"
  /\ query' = [ query EXCEPT
       !.pc = "done",
       !.field =
          IF RadiationAngle(query.m_crossSections, query.queryPt) <= 0
            THEN InteriorField(query.m_crossSections, query.queryPt)
          ELSE IF query.computeRadiatedField
            THEN [ from |-> "RayleighSommerfeldIntegral", s |-> 0 ]
          ELSE [ from |-> "NaN", s |-> 0 ] ]
  /\ UNCHANGED << simulatorVars, instance, threads, csv, build, magnus,
                  exportGeo, generator, branch, modal >>

\* a straight geometry of two slices is built and a point is asked for,
\* below, on or above the centerline, on a contour or beyond all contours
InitQuery ==
  /\ InitSimulator
  /\ modal = NoCall
  /\ branch = NoCall
  /\ generator = NoCall
  /\ instance = 0 /\ threads = << >>
  /\ csv = NoCall /\ build = NoCall /\ magnus = NoCall
  /\ exportGeo = NoCall
  /\ \E contours \in [ 1..MinContours -> Shapes ],
        centerLine \in [ 1..MinContours -> Abscissas ],
        x \in (-1)..(2 * MaxCoord + 1), y \in { -2, 0, 1, 2, 5 },
        computeRadiatedField \in BOOLEAN :
       query = [ pc |-> "call",
                 m_crossSections |->
                   CrossSectionsOf(contours,
                     AddIntermediatePoint(Straighten(centerLine, FALSE)),
                     FALSE),
                 queryPt |-> [ x |-> x, y |-> y ],
                 computeRadiatedField |-> computeRadiatedField,
                 field |-> [ from |-> "none", s |-> 0 ] ]

SpecQuery == InitQuery /\ [][acousticField]_vars

(***************************************************************************)
(* propagateMagnus on one section                                          *)
(*                                                                         *)
(* A section keeps, for each of the four quantities, the samples of the    *)
(* last propagation along its axis.  A sample is named by the matrix it    *)
(* was started from and by the number of integration steps made since.     *)
(***************************************************************************)

\* enum physicalQuantity
Quantities == { "IMPEDANCE", "ADMITTANCE", "PRESSURE", "VELOCITY" }

\* the member that holds the samples of a quantity
ArrayOf(quant) ==
  CASE quant = "IMPEDANCE" -> "m_impedance"
    [] quant = "ADMITTANCE" -> "m_admittance"
    [] quant = "PRESSURE" -> "m_acPressure"
    [] quant = "VELOCITY" -> "m_axialVelocity"

\* CrossSection2dFEM::length and the length of the base class, which a
\* radiation section keeps
length(sec) == IF sec.type = "FEM" THEN sec.m_length ELSE 0

\* the sample that integration step i makes of the sample before it
NextSample(prev) == [ from |-> prev.from, steps |-> prev.steps + 1 ]

RECURSIVE Integrate(_, _)
\* the samples after the steps that are left
Integrate(samples, stepsLeft) ==
  IF stepsLeft <= 0 THEN samples
  ELSE Integrate(Append(samples, NextSample(samples[Len(samples)])),
                 stepsLeft - 1)

\* CrossSection2dFEM::propagateMagnus: the samples of quant are replaced by
\* Q0 alone in a section of length 0, by Q0 and the numX - 1 samples
\* integrated from it otherwise
propagateMagnus_FEM(sec, Q0, numX, quant) ==
  IF sec.m_length = 0
    THEN [ sec EXCEPT ![ArrayOf(quant)] = << Q0 >> ]
    ELSE [ sec EXCEPT ![ArrayOf(quant)] = Integrate(<< Q0 >>, numX - 1) ]

\* the axial step dX of CrossSection2dFEM::propagateMagnus, as the pair of
\* its numerator and denominator; the section of length 0 makes no step
dX(sec, numX, quant) ==
  IF sec.m_length = 0 THEN << 0, numX - 1 >>
  ELSE IF quant \in { "IMPEDANCE", "ADMITTANCE" }
    THEN << -sec.m_length, numX - 1 >>
  ELSE << sec.m_length, numX - 1 >>

\* the index read in the samples of the other quantity at step i counted
\* from the start sample instead of from the end
CoefIndex_FromStart(numX, i) == i

\* the index at which integration step i of the pressure reads m_admittance,
\* and the one of the velocity m_impedance
CoefIndex(numX, i) == numX - 1 - i

\* CrossSection2dRadiation::propagateMagnus has an empty body
propagateMagnus_Radiation(sec, Q0, numX, quant) == sec

\* propagateMagnus is called on a section, a virtual call.  Pressure and
\* velocity are integrated with the admittance and impedance samples of the
\* section, which the solve has propagated before.  The axial step of the
\* call and the indices at which those samples are read are kept with it.
propagateMagnus ==
  /\ magnus.pc = "call"
  /\ magnus' = [ magnus EXCEPT
       !.pc = "done",
       !.sec = IF magnus.sec.type = "FEM"
                 THEN propagateMagnus_FEM(magnus.sec, magnus.Q0,
                                          magnus.numX, magnus.quant)
                 ELSE propagateMagnus_Radiation(magnus.sec, magnus.Q0,
                                                magnus.numX, magnus.quant),
       !.dX = IF magnus.sec.type = "FEM"
                THEN dX(magnus.sec, magnus.numX, magnus.quant)
                ELSE @,
       !.reads = IF /\ magnus.sec.type = "FEM"
                    /\ magnus.sec.m_length # 0
                    /\ magnus.quant \in { "PRESSURE", "VELOCITY" }
                   THEN [ i \in 1..(magnus.numX - 1) |->
                            CoefIndex(magnus.numX, i - 1) ]
                   ELSE @ ]
  /\ UNCHANGED << simulatorVars, instance, threads, csv, build, query,
                  exportGeo, generator, branch, modal >>

\* Zin, Yin, Pin, Qin: the first or the last sample, by the direction tag
In(sec, quant) ==
  IF sec.m_direction[quant] = 1 THEN sec[ArrayOf(quant)][1]
  ELSE sec[ArrayOf(quant)][Len(sec[ArrayOf(quant)])]

\* Zout, Yout, Pout, Qout of a section that holds samples of the quantity
Out(sec, quant) ==
  IF sec.m_direction[quant] = 1
    THEN sec[ArrayOf(quant)][Len(sec[ArrayOf(quant)])]
  ELSE sec[ArrayOf(quant)][1]

\* what a member holds before the call: nothing, or the samples of the last
\* propagation through the section
SamplesBefore(len, numX) ==
  { << >>,
    IF len = 0 THEN << [ from |-> "old", steps |-> 0 ] >>
    ELSE Integrate(<< [ from |-> "old", steps |-> 0 ] >>, numX - 1) }

\* direction tags of a section: impedance and admittance are propagated
\* against pressure and velocity
DirectionTags ==
  { [ qt \in Quantities |->
        IF qt \in { "IMPEDANCE", "ADMITTANCE" } THEN d ELSE -d ] :
      d \in { -1, 1 } }

\* the FEM sections of length len
SectionsFEM(len, numX) ==
  { [ type |-> "FEM", m_length |-> len, m_direction |-> dir,
      m_impedance |-> z, m_admittance |-> y,
      m_acPressure |-> pr, m_axialVelocity |-> q ] :
      dir \in DirectionTags,
      z \in SamplesBefore(len, numX), y \in SamplesBefore(len, numX),
      pr \in SamplesBefore(len, numX), q \in SamplesBefore(len, numX) }

\* the radiation sections: nothing writes their samples
SectionsRadiation ==
  { [ type |-> "Radiation", m_length |-> 0, m_direction |-> dir,
      m_impedance |-> << >>, m_admittance |-> << >>,
      m_acPressure |-> << >>, m_axialVelocity |-> << >> ] :
      dir \in DirectionTags }

\* the sections of a geometry: FEM sections, of length 0 when they are
\* junctions, and the radiation section
SectionsBefore(numX) ==
  UNION { SectionsFEM(len, numX) : len \in 0..MaxCoord }
  \cup SectionsRadiation

\* the call of propagateMagnus: the caller has set the tag of the quantity
\* to the direction of the propagation, and pressure and velocity follow an
\* admittance pass with the same number of steps
InitMagnus ==
  /\ InitSimulator
  /\ modal = NoCall
  /\ branch = NoCall
  /\ generator = NoCall
  /\ instance = 0 /\ threads = << >>
  /\ csv = NoCall /\ build = NoCall /\ query = NoCall
  /\ exportGeo = NoCall
  /\ \E numX \in { 2, 3 }, quant \in Quantities, q \in { "Q0", "Q1" },
        direction \in { -1, 1 } :
       \E sec \in SectionsBefore(numX), Q0 \in { [ from |-> q, steps |-> 0 ] } :
         /\ quant = "PRESSURE" => sec.m_admittance # << >>
         /\ quant = "VELOCITY" => sec.m_impedance # << >>
         /\ sec.m_direction[quant] = direction
         /\ magnus = [ pc |-> "call", sec |-> sec, Q0 |-> Q0,
                       numX |-> numX, quant |-> quant,
                       direction |-> direction, dX |-> << 0, numX - 1 >>,
                       reads |-> << >> ]

SpecMagnus == InitMagnus /\ [][propagateMagnus]_vars

(***************************************************************************)
(* exportGeoInCsv, and the import of the file it wrote                     *)
(*                                                                         *)
(* A section is given by what exportGeoInCsv reads of it: centerline point *)
(* at the entrance and at the exit, normal, scaling factors, contour and   *)
(* junction flag.  The geometry is straight along the x axis.              *)
(***************************************************************************)

\* the two lines written for a section: centerline point, normal, scaling
\* factors, then the contour multiplied by scaleIn; every number is followed
\* by the separator
ExportedSlice(sec, Pt) ==
  << << FormatDouble(Dec(Pt, 0)), FormatDouble(Dec(0, 0)),
        FormatDouble(sec.scaleIn) >>
     \o [ j \in 1..Len(sec.contour) |->
            FormatDouble(Mul(sec.scaleIn, sec.contour[j][1])) ],
     << FormatDouble(Dec(0, 0)), FormatDouble(Dec(1, 0)),
        FormatDouble(sec.scaleOut) >>
     \o [ j \in 1..Len(sec.contour) |->
            FormatDouble(Mul(sec.scaleIn, sec.contour[j][2])) ] >>

RECURSIVE ExportedLines(_, _)
\* the lines written for the sections up to section i: junction sections
\* are skipped, and of the last section the centerline point at the exit is
\* written
ExportedLines(secs, i) ==
  IF i < 1 THEN << >>
  ELSE ExportedLines(secs, i - 1)
         \o (IF secs[i].junction THEN << >>
             ELSE ExportedSlice(secs[i],
                                IF i = Len(secs) THEN secs[i].ctrLinePtOut
                                ELSE secs[i].ctrLinePtIn))

\* Acoustic3dSimulation::exportGeoInCsv
exportGeoInCsv ==
  /\ exportGeo.pc = "call"
  /\ exportGeo' = [ exportGeo EXCEPT
       !.pc = "written",
       !.file = ExportedLines(exportGeo.m_crossSections,
                              Len(exportGeo.m_crossSections)) ]
  /\ UNCHANGED << simulatorVars, instance, threads, csv, build, query,
                  magnus, generator, branch, modal >>

\* the file that was written becomes the geometry file and
\* extractContoursFromCsvFile is entered on it, contours to be simplified
importExported ==
  /\ exportGeo.pc = "written"
  /\ \E uninit \in UninitValues :
       csv' = OpenCsv(exportGeo.file, TRUE, uninit)
  /\ exportGeo' = [ exportGeo EXCEPT !.pc = "imported" ]
  /\ UNCHANGED << simulatorVars, instance, threads, build, query, magnus,
                  generator, branch, modal >>

\* a contour of n points (j, j*j); in the second one of the family the
\* first abscissa has seven significant digits
ContourOf(n, c) ==
  [ j \in 1..n |->
      << IF c = 2 /\ j = 1 THEN Dec(1234567, -6) ELSE Dec(j, 0),
         Dec(j * j, 0) >> ]

\* contours of the sections of a built geometry
BuiltContours ==
  { ContourOf(MinVertices, 1), ContourOf(MinVertices, 2),
    ContourOf(MaxVertices, 1) }

\* section i of a geometry of sections of length 1
BuiltSection(i, contour, scaleIn) ==
  [ ctrLinePtIn |-> i - 1, ctrLinePtOut |-> i, scaleIn |-> scaleIn,
    scaleOut |-> Dec(1, 0), contour |-> contour, junction |-> FALSE ]

\* the junction section createCrossSections puts after section i
JunctionSection(i) ==
  [ ctrLinePtIn |-> i, ctrLinePtOut |-> i, scaleIn |-> Dec(1, 0),
    scaleOut |-> Dec(1, 0), contour |-> ContourOf(MinVertices, 1),
    junction |-> TRUE ]

\* the sections of a geometry of n slices, with a junction section after
\* the first one or without
BuiltGeometry(n, contour, scaleIn, withJunction) ==
  << BuiltSection(1, contour[1], scaleIn[1]) >>
  \o (IF withJunction THEN << JunctionSection(1) >> ELSE << >>)
  \o [ i \in 1..(n - 1) |-> BuiltSection(i + 1, contour[i + 1],
                                          scaleIn[i + 1]) ]

\* a geometry has been built and is exported
InitExport ==
  /\ InitSimulator
  /\ modal = NoCall
  /\ branch = NoCall
  /\ generator = NoCall
  /\ instance = 0 /\ threads = << >>
  /\ csv = NoCall /\ build = NoCall /\ query = NoCall /\ magnus = NoCall
  /\ \E n \in MinContours..MaxSlices :
       \E contour \in [ 1..n -> BuiltContours ],
          scaleIn \in [ 1..n -> { Dec(1, 0), Dec(2, 0) } ],
          withJunction \in BOOLEAN :
         exportGeo = [ pc |-> "call",
                       m_crossSections |->
                         BuiltGeometry(n, contour, scaleIn, withJunction),
                       file |-> << >> ]

SpecExport ==
  InitExport
    /\ [][exportGeoInCsv \/ importExported \/ ReadSlice \/ EndImport]_vars

(***************************************************************************)
(* The helper generators of STL files                                      *)
(*                                                                         *)
(* generate_hollow_cylinder and generate_tapered_elbow build a mesh from   *)
(* the radii given as options and write it to the output file.  The file   *)
(* is followed by what it holds: "absent", "other" (what was there before  *)
(* the call) or "mesh" (what the call wrote).                              *)
(***************************************************************************)

\* write_mesh_to_stl: opening the stream creates or truncates the file
write_mesh_to_stl(g) ==
  IF g.canOpen THEN [ g EXCEPT !.pc = "done", !.file = "mesh", !.ret = TRUE ]
  ELSE [ g EXCEPT !.pc = "done", !.ret = FALSE ]

\* create_hollow_cylinder_stl with the file opened before the options are
\* looked at
create_hollow_cylinder_stl_OpensFirst ==
  /\ generator.pc = "call"
  /\ generator.tool = "hollow_cylinder"
  /\ generator' =
       IF \/ generator.inner_radius >= generator.outer_radius
          \/ generator.height <= 0
          \/ generator.inner_radius <= 0
          \/ generator.sections <= 0
         THEN [ write_mesh_to_stl(generator) EXCEPT !.ret = FALSE ]
       ELSE write_mesh_to_stl(generator)
  /\ UNCHANGED << simulatorVars, instance, threads, csv, build, query,
                  magnus, exportGeo, branch, modal >>

\* create_hollow_cylinder_stl; the mesh is empty when no point is put on the
\* circles
create_hollow_cylinder_stl ==
  /\ generator.pc = "call"
  /\ generator.tool = "hollow_cylinder"
  /\ generator' =
       IF \/ generator.inner_radius >= generator.outer_radius
          \/ generator.height <= 0
          \/ generator.inner_radius <= 0
         THEN [ generator EXCEPT !.pc = "done", !.ret = FALSE ]
       ELSE IF generator.sections <= 0
         THEN [ generator EXCEPT !.pc = "done", !.ret = FALSE ]
       ELSE write_mesh_to_stl(generator)
  /\ UNCHANGED << simulatorVars, instance, threads, csv, build, query,
                  magnus, exportGeo, branch, modal >>

\* create_tapered_elbow_stl
create_tapered_elbow_stl ==
  /\ generator.pc = "call"
  /\ generator.tool = "tapered_elbow"
  /\ generator' =
       IF \/ generator.start_inner_radius >= generator.start_outer_radius
          \/ generator.end_inner_radius >= generator.end_outer_radius
         THEN [ generator EXCEPT !.pc = "done", !.ret = FALSE ]
       ELSE IF \/ generator.start_inner_radius <= 0
               \/ generator.end_inner_radius <= 0
         THEN [ generator EXCEPT !.pc = "done", !.ret = FALSE ]
       ELSE IF generator.bend_radius <=
                 (IF generator.start_outer_radius >= generator.end_outer_radius
                    THEN generator.start_outer_radius
                    ELSE generator.end_outer_radius)
         THEN [ generator EXCEPT !.pc = "done", !.ret = FALSE ]
       ELSE IF generator.sections <= 0
         THEN [ generator EXCEPT !.pc = "done", !.ret = FALSE ]
       ELSE write_mesh_to_stl(generator)
  /\ UNCHANGED << simulatorVars, instance, threads, csv, build, query,
                  magnus, exportGeo, branch, modal >>

\* a generator is called with options read from the command line; the
\* output file exists or not and can be opened or not
InitGenerate ==
  /\ InitSimulator
  /\ modal = NoCall
  /\ branch = NoCall
  /\ instance = 0 /\ threads = << >>
  /\ csv = NoCall /\ build = NoCall /\ query = NoCall /\ magnus = NoCall
  /\ exportGeo = NoCall
  /\ \E file \in { "absent", "other" }, canOpen \in BOOLEAN,
        sections \in { 0, 32 } :
       \/ \E inner \in (-1)..MaxRadius, outer \in (-1)..MaxRadius,
             height \in (-1)..MaxRadius :
            generator = [ pc |-> "call", tool |-> "hollow_cylinder",
                          inner_radius |-> inner, outer_radius |-> outer,
                          height |-> height, sections |-> sections,
                          canOpen |-> canOpen, before |-> file,
                          file |-> file, ret |-> FALSE ]
       \/ \E inner \in [ { "start", "end" } -> 0..MaxRadius ],
             outer \in [ { "start", "end" } -> 1..MaxRadius ],
             bend \in 1..(MaxRadius + 1) :
            generator = [ pc |-> "call", tool |-> "tapered_elbow",
                          start_inner_radius |-> inner["start"],
                          start_outer_radius |-> outer["start"],
                          end_inner_radius |-> inner["end"],
                          end_outer_radius |-> outer["end"],
                          bend_radius |-> bend, sections |-> sections,
                          canOpen |-> canOpen, before |-> file,
                          file |-> file, ret |-> FALSE ]

SpecGenerate ==
  InitGenerate
    /\ [][create_hollow_cylinder_stl \/ create_tapered_elbow_stl]_vars

(***************************************************************************)
(* propagateImpedAdmitBranch                                               *)
(*                                                                         *)
(* The sections are those createCrossSections makes of a geometry file.    *)
(* segToProp is the list of the groups of sections to propagate and ns the *)
(* index of the group that is propagated next, both as in the code.  Each  *)
(* section counts the calls of propagateMagnus on it and keeps the         *)
(* direction of the last one.                                              *)
(***************************************************************************)

\* CrossSection2d::area of a section with the given contour
area(contour) ==
  IF Len(contour) = 2 THEN contour[2] - contour[1]
  ELSE contour[2] - contour[1] + contour[4] - contour[3]

\* the sections connected to section it against the direction (prevSegs)
prevSegs(b, it) ==
  IF b.direction > 0 THEN b.m_crossSections[it + 1].m_previousSections
  ELSE b.m_crossSections[it + 1].m_nextSections

\* the sections connected to section it along the direction (nextSegs)
nextSegs(b, it) ==
  IF b.direction > 0 THEN b.m_crossSections[it + 1].m_nextSections
  ELSE b.m_crossSections[it + 1].m_previousSections

\* propagateMagnus called on the first section of every group only
SectionsToPropagate_FirstOnly(b, group) == { group[1] }

\* the sections of group ns that propagateMagnus is called on: the first one
\* of a start group; every section of a group whose previous section is
\* larger; the first one of a group whose previous sections are smaller
SectionsToPropagate(b, group) ==
  IF b.ns < Len(b.startSections) THEN { group[1] }
  ELSE IF area(b.m_crossSections[group[1] + 1].contour)
            < area(b.m_crossSections[prevSegs(b, group[1])[1] + 1].contour)
    THEN { group[j] : j \in 1..Len(group) }
  ELSE { group[1] }

\* the flag m_computeImpedance after the group has been propagated
ComputeImpedanceAfter(b, group) ==
  IF b.ns < Len(b.startSections) THEN b.m_computeImpedance
  ELSE [ x \in 1..Len(b.m_crossSections) |->
           IF (x - 1) \in SectionsToPropagate(b, group)
             THEN area(b.m_crossSections[group[1] + 1].contour)
                    < area(b.m_crossSections[
                             prevSegs(b, group[1])[1] + 1].contour)
             ELSE b.m_computeImpedance[x] ]

\* addSegsToList that never adds a group of several sections
addSegsToList_SingleOnly(b, it) ==
  /\ Len(nextSegs(b, it)) = 1
  /\ \A p \in 1..Len(prevSegs(b, nextSegs(b, it)[1])) :
       \E i \in 1..(b.ns + 1) : \E j \in 1..Len(b.segToProp[i]) :
         b.segToProp[i][j] = prevSegs(b, nextSegs(b, it)[1])[p]

\* addSegsToList for the sections that follow section it: several sections
\* are added as they are, a single one when each of its previous sections is
\* in a group of the list up to group ns
addSegsToList(b, it) ==
  \/ Len(nextSegs(b, it)) > 1
  \/ \A p \in 1..Len(prevSegs(b, nextSegs(b, it)[1])) :
       \E i \in 1..(b.ns + 1) : \E j \in 1..Len(b.segToProp[i]) :
         b.segToProp[i][j] = prevSegs(b, nextSegs(b, it)[1])[p]

RECURSIVE AddFollowing(_, _, _, _)
\* segToProp after the loop over the sections of the group, from section k
\* of the group on
AddFollowing(b, group, k, list) ==
  IF k > Len(group) THEN list
  ELSE IF /\ \A e \in 1..Len(b.endSections) : b.endSections[e] # group[k]
          /\ nextSegs(b, group[k]) # << >>
          /\ \A i \in (b.ns + 1)..Len(list) :
               list[i][1] # nextSegs(b, group[k])[1]
          /\ addSegsToList(b, group[k])
    THEN AddFollowing(b, group, k + 1,
                      Append(list, nextSegs(b, group[k])))
  ELSE AddFollowing(b, group, k + 1, list)

\* one turn of the loop of propagateImpedAdmitBranch: group ns is
\* propagated and the groups that follow it are added to the list.  The
\* direction tags of the sections are not written.
propagateImpedAdmitBranch ==
  /\ branch.pc = "loop"
  /\ branch.ns < Len(branch.segToProp)
  /\ \E group \in { branch.segToProp[branch.ns + 1] } :
       branch' = [ branch EXCEPT
         !.calls = [ x \in 1..Len(branch.m_crossSections) |->
                       IF (x - 1) \in SectionsToPropagate(branch, group)
                         THEN @[x] + 1 ELSE @[x] ],
         !.written = [ x \in 1..Len(branch.m_crossSections) |->
                         IF (x - 1) \in SectionsToPropagate(branch, group)
                           THEN branch.direction ELSE @[x] ],
         !.m_computeImpedance = ComputeImpedanceAfter(branch, group),
         !.segToProp = AddFollowing(branch, group, 1, branch.segToProp),
         !.ns = @ + 1,
         !.pc = IF branch.ns + 1
                     < Len(AddFollowing(branch, group, 1, branch.segToProp))
                  THEN "loop" ELSE "done" ]
  /\ UNCHANGED << simulatorVars, instance, threads, csv, build, query,
                  magnus, exportGeo, generator, modal >>

\* the call: the sections of a geometry, the section of a slice to start
\* from and the one to end at, which lies in the direction of the
\* propagation.  The tags are those of the constructor (-1) or those of an
\* earlier propagation from the first section to the last (+1); the flag
\* m_computeImpedance has no initial value.
InitBranch ==
  /\ InitSimulator
  /\ modal = NoCall
  /\ generator = NoCall
  /\ instance = 0 /\ threads = << >>
  /\ csv = NoCall /\ build = NoCall /\ query = NoCall /\ magnus = NoCall
  /\ exportGeo = NoCall
  /\ \E n \in MinContours..MaxSlices :
       \E contours \in [ 1..n -> Shapes ] :
         \E secs \in { CrossSectionsOf(contours, [ i \in 1..(n + 1) |-> i ],
                                       FALSE) } :
           \E first \in 0..(Len(secs) - 1), last \in 0..(Len(secs) - 1),
              direction \in { -1, 1 }, tag \in { -1, 1 },
              flag \in BOOLEAN :
             /\ first <= last
             /\ ~secs[first + 1].junction
             /\ ~secs[last + 1].junction
             /\ branch =
                  [ pc |-> "loop", m_crossSections |-> secs,
                    direction |-> direction,
                    startSections |->
                      IF direction > 0 THEN << first >> ELSE << last >>,
                    endSections |->
                      IF direction > 0 THEN << last >> ELSE << first >>,
                    segToProp |->
                      IF direction > 0 THEN << << first >> >>
                      ELSE << << last >> >>,
                    ns |-> 0,
                    calls |-> [ x \in 1..Len(secs) |-> 0 ],
                    written |-> [ x \in 1..Len(secs) |-> 0 ],
                    Zdir |-> [ x \in 1..Len(secs) |-> tag ],
                    m_computeImpedance |-> [ x \in 1..Len(secs) |-> flag ] ]

SpecBranch == InitBranch /\ [][propagateImpedAdmitBranch]_vars

\* the loop is not left waiting
SpecBranchFair == SpecBranch /\ WF_vars(propagateImpedAdmitBranch)

(***************************************************************************)
(* CrossSection2dFEM::computeModes: selection of the modes                 *)
(***************************************************************************)

\* The eigenvalues the solver returns are in increasing order, the first one
\* being the zero eigenvalue of the plane mode.  maxWaveNumber is the cap
\* (2 pi maxCutOnFreq / sndSpeed)^2 in the unit of the eigenvalues.  An
\* eigenfrequency is held as the eigenvalue it is the square root of.

\* sorted lists of n eigenvalues
EigenvalueLists(n) ==
  { ev \in [ 1..n -> 0..MaxEigenvalue ] :
      /\ ev[1] = 0
      /\ \A i \in 1..(n - 1) : ev[i] <= ev[i + 1] }

\* idx at the exit of the while loop of the branch m_modesNumber == 0: the
\* loop goes on while eigenvalues()[idx] < maxWaveNumber and idx < size()
RECURSIVE SelectBelow(_, _, _)
SelectBelow(eigenvalues, maxWaveNumber, idx) ==
  IF idx < Len(eigenvalues) /\ eigenvalues[idx + 1] < maxWaveNumber
    THEN SelectBelow(eigenvalues, maxWaveNumber, idx + 1)
    ELSE idx

\* the indexes at which eigenvalues() is read: the condition of the while
\* loop reads eigenvalues()[idx] before it compares idx with size(), the for
\* loop of the other branch reads the first m_modesNumber ones
EigenvaluesRead(eigenvalues, maxWaveNumber, modesNumber) ==
  IF modesNumber = 0
    THEN 0..SelectBelow(eigenvalues, maxWaveNumber, 0)
    ELSE 0..(modesNumber - 1)

\* the number of eigenfrequencies pushed
NumPushed(eigenvalues, maxWaveNumber, modesNumber) ==
  IF modesNumber = 0
    THEN SelectBelow(eigenvalues, maxWaveNumber, 0)
    ELSE modesNumber

\* computeModes from the solution of the eigenproblem to
\* m_eigenFreqs[0] = 0.  A read past the last eigenvalue and a write into
\* an empty vector are undefined: the call goes on with any value read or
\* stops there.
computeModes ==
  /\ modal # NoCall /\ modal.pc = "call"
  /\ \E n \in { NumPushed(modal.eigenvalues, modal.maxWaveNumber,
                          modal.m_modesNumber) },
        reads \in { EigenvaluesRead(modal.eigenvalues, modal.maxWaveNumber,
                                    modal.m_modesNumber) },
        unread \in 0..MaxEigenvalue :
       \E outcome \in
            (IF n = 0 \/ \E i \in reads : i >= Len(modal.eigenvalues)
               THEN { "done", "fault" } ELSE { "done" }) :
         modal' = [ modal EXCEPT
           !.pc = outcome,
           !.reads = reads,
           !.m_modesNumber = n,
           !.sizeAtWrite = n,
           !.m_eigenFreqs =
              [ i \in 1..n |->
                  IF i = 1 THEN 0
                  ELSE IF i <= Len(modal.eigenvalues)
                    THEN modal.eigenvalues[i] ELSE unread ] ]
  /\ UNCHANGED << simulatorVars, instance, threads, csv, build, query,
                  magnus, exportGeo, generator, branch >>

\* the solved eigenproblems, caps and mode numbers of a call
InitModes ==
  /\ InitSimulator
  /\ instance = 0 /\ threads = << >>
  /\ csv = NoCall /\ build = NoCall /\ query = NoCall /\ magnus = NoCall
  /\ exportGeo = NoCall /\ generator = NoCall /\ branch = NoCall
  /\ \E n \in 1..MaxNumEigen :
       \E eigenvalues \in EigenvalueLists(n),
          maxWaveNumber \in 0..(MaxEigenvalue + 1),
          modesNumber \in 0..(MaxNumEigen + 1) :
         modal = [ pc |-> "call", eigenvalues |-> eigenvalues,
                   maxWaveNumber |-> maxWaveNumber,
                   m_modesNumber |-> modesNumber,
                   m_eigenFreqs |-> << >>, reads |-> {},
                   sizeAtWrite |-> 0 ]

SpecModes == InitModes /\ [][computeModes]_vars

(***************************************************************************)
(* Properties                                                              *)
(***************************************************************************)

\* positions of a run from the first propagateImpedAdmit step of a solve on
PropagationPcs == {"zy", "pq", "sampleG", "sampleF", "noise", "sampleN"}

\* the sweep of computeTransferFunction has gone through its last frequency
SweepDone ==
  pc = "nextFreq" /\ frame.caller = "tf" /\ frame.i = NumFreq - 1

\* C1: in a solve that finds the recompute flag set, the modes of every
\* section are complete before the junction loop starts, the junction
\* matrices of every section before the radiation spline is computed, and all
\* of them (with the spline when it is requested for the RADIATION boundary)
\* before the first impedance/admittance propagation step of the solve.
C1_PrecomputeBeforePropagation ==
  /\ pc \in {"junctions", "radblock"} =>
       \A k \in SecIdx : Sec(k).modes = "cur" /\ Sec(k).modesNumber > 0
  /\ pc = "radblock" =>
       \A k \in SecIdx : Sec(k).junc = "cur" /\ (k < lastSec => Sec(k).F = "cur")
  /\ (frame.foundFlag /\ pc \in {"boundary"} \cup PropagationPcs) =>
       /\ \A k \in SecIdx :
            /\ Sec(k).modes = "cur"
            /\ Sec(k).junc = "cur"
            /\ k < lastSec => Sec(k).F = "cur"
       /\ (frame.precomputeRadImped /\ m_mouthBoundaryCond = "RADIATION") =>
            m_radiationMatrixInterp.stamp = "cur"

\* C1 witness: the first propagation step of a RADIATION solve of a sweep
\* that found the flag set
C1_Witness ==
  /\ pc = "zy" /\ frame.kind = "g" /\ frame.s = frame.startSec
  /\ frame.foundFlag /\ frame.precomputeRadImped
  /\ m_mouthBoundaryCond = "RADIATION"
  /\ numSec >= 2

\* C2: when a solve at a frequency has returned, the Z, Y, P and Q arrays of
\* every section hold only samples written for that frequency: all by the
\* glottal solve after solveWaveProblem, by the glottal solve or the
\* noise-source re-solve of the same frequency after the re-solve; none is
\* left from an earlier solve and none is empty.
C2_SolveRewritesAllArrays ==
  /\ pc \in {"sampleG", "sampleF", "noise"} =>
       \A k \in SecIdx :
         Sec(k).Z = "g" /\ Sec(k).Y = "g" /\ Sec(k).P = "g" /\ Sec(k).Q = "g"
  /\ pc \in {"sampleN", "nextFreq"} =>
       \A k \in SecIdx :
         {Sec(k).Z, Sec(k).Y, Sec(k).P, Sec(k).Q} \subseteq {"g", "n"}

\* C2 witness: the solve of a later frequency of a sweep has returned, so
\* that every array held samples of an earlier frequency when it started
C2_Witness ==
  /\ pc = "sampleG" /\ frame.i >= 1
  /\ \A k \in SecIdx : Sec(k).Z = "g" /\ Sec(k).P = "g"

\* C3 as stated: every sweep runs the mesh, mode and junction computation
\* exactly once
C3_Original ==
  SweepDone => frame.nbModesComp = 1

\* C3 amended: a sweep runs the mesh, mode and junction computation at most
\* once and only at its first frequency: once when the recompute flag is set
\* when the sweep starts, not at all when it is clear; a later frequency
\* recomputes nothing and finds the stored modes and junction matrices as
\* the earlier solves left them.
C3_ComputedAtMostOncePerSweep ==
  frame.caller = "tf" =>
    /\ (pc # "solve" \/ frame.i > 0) =>
         frame.nbModesComp = IF frame.startNeed THEN 1 ELSE 0
    /\ (frame.i > 0 /\ pc # "crashed") =>
         /\ ~frame.foundFlag
         /\ pc \notin {"modes", "junctions", "radblock"}
         /\ \A k \in SecIdx :
              Sec(k).modes \in {"old", NoStamp} /\ Sec(k).F \in {"old", NoStamp}

\* C3 witness: a sweep that started with the flag set has gone through all
\* its frequencies with one computation
C3_Witness ==
  SweepDone /\ frame.startNeed /\ frame.nbModesComp = 1

\* C4: no solve propagates through a section whose modes and junction
\* matrices were not computed since the section list was rebuilt (a rebuilt
\* section holds neither until computeMeshAndModes and
\* computeJunctionMatrices ran on it).
C4_NoPropagationWithoutModes ==
  pc \in {"zy", "pq"} =>
    \A k \in SecIdx : Sec(k).modes # NoStamp /\ Sec(k).junc # NoStamp

\* C5: once an import has failed and until an import succeeds, no solve is
\* run and importGeometry does not report the geometry as loaded.
C5_RefusedAfterFailedImport ==
  importFailed => pc = "idle" /\ importResult # "true"

\* C6: the transfer function row of a frequency at which the propagation
\* failed is NaN.
C6_FailedFrequencyIsNaN ==
  (pc = "noise" /\ frame.propFail) => m_glottalSourceTF[frame.i] = "nan"

\* C7: whatever the mouth boundary option, when back-propagation starts
\* from the outlet the outlet impedance and admittance matrices are defined
\* and sized by the mode count of the last section.
C7_OutletMatricesDefined ==
  (pc = "zy" /\ frame.kind = "g" /\ frame.s = frame.startSec) =>
    radMat.defined /\ radMat.size = Sec(lastSec).modesNumber

\* C8: with the RADIATION boundary every frequency of a sweep interpolates
\* spline coefficients that were computed for the geometry being solved, and
\* the sweep computes them at most once.
C8_SplineOfCurrentGeometry ==
  (frame.caller = "tf" /\ m_mouthBoundaryCond = "RADIATION"
     /\ pc \in PropagationPcs) =>
    /\ radMat.src = "interp"
    /\ radMat.coef = m_radiationMatrixInterp
    /\ m_radiationMatrixInterp.geo = numSec
    /\ frame.nbSplineComp <= 1

\* C9: while the forward pressure/velocity propagation of a solve runs, and
\* from its first section on, impedance and admittance of every section have
\* been written by that solve with direction -1; while impedance and
\* admittance are propagated no section holds pressure or velocity of the
\* solve.
C9_BackwardBeforeForward ==
  /\ (pc = "pq" /\ frame.kind = "g") =>
       /\ frame.dir = 1
       /\ \A k \in SecIdx :
            /\ Sec(k).Z = "g" /\ Sec(k).Y = "g"
            /\ Sec(k).Zdir = -1 /\ Sec(k).Ydir = -1
  /\ (pc = "zy" /\ frame.kind = "g") =>
       /\ frame.dir = -1
       /\ \A k \in SecIdx : Sec(k).P # "g" /\ Sec(k).Q # "g"

\* C9 witness: the forward propagation is about to start in section 0
C9_Witness ==
  /\ pc = "pq" /\ frame.kind = "g" /\ frame.s = 0
  /\ numSec >= 2
  /\ \A k \in SecIdx : Sec(k).Zdir = -1

\* C10 as stated: when the field is sampled, all four arrays of every
\* section were written by the solve that is sampled
C10_Original ==
  /\ pc \in {"sampleG", "sampleF"} =>
       \A k \in SecIdx :
         Sec(k).Z = "g" /\ Sec(k).Y = "g" /\ Sec(k).P = "g" /\ Sec(k).Q = "g"
  /\ pc = "sampleN" =>
       \A k \in SecIdx :
         Sec(k).Z = "n" /\ Sec(k).Y = "n" /\ Sec(k).P = "n" /\ Sec(k).Q = "n"

\* C10 amended: the field is sampled after both propagation calls of the
\* sampled solve have returned.  A sample of the glottal solve reads arrays
\* written by that solve only.  A sample of the noise-source re-solve finds
\* impedance/admittance of the re-solve up to the noise source section and
\* pressure/velocity of the re-solve after it; the other arrays are those of
\* the glottal solve of the same frequency, never of another frequency.
C10_SampleAfterBothPasses ==
  /\ pc \in {"sampleG", "sampleF"} =>
       /\ frame.kind = "g" /\ frame.s = lastSec
       /\ \A k \in SecIdx :
            Sec(k).Z = "g" /\ Sec(k).Y = "g" /\ Sec(k).P = "g" /\ Sec(k).Q = "g"
  /\ pc = "sampleN" =>
       /\ frame.kind = "n" /\ frame.s = lastSec
       /\ \A k \in SecIdx :
            /\ Sec(k).Z = Sec(k).Y /\ Sec(k).P = Sec(k).Q
            /\ Sec(k).Z = IF k <= m_idxSecNoiseSource THEN "n" ELSE "g"
            /\ Sec(k).P = IF k <= m_idxSecNoiseSource THEN "g" ELSE "n"

\* C10 witness: a noise-source sample with a section between the noise
\* source and the outlet
C10_Witness ==
  /\ pc = "sampleN"
  /\ m_idxSecNoiseSource + 1 < lastSec
  /\ Sec(0).Z = "n" /\ Sec(0).P = "g" /\ Sec(lastSec).P = "n"

\* C11: what a glottal solve leaves in the sections does not depend on a
\* noise-source re-solve that ran before it: when the glottal solve of a
\* frequency has returned, the Z, Y, P and Q arrays of every section are
\* those of that solve, impedance and admittance are tagged with direction
\* -1 and pressure and velocity with direction +1, whether or not a
\* re-solve of an earlier frequency wrote arrays and tags.
C11_NoiseSolveLeavesNoTrace ==
  pc \in {"sampleG", "sampleF", "noise"} =>
    \A k \in SecIdx :
      /\ Sec(k).Z = "g" /\ Sec(k).Y = "g" /\ Sec(k).P = "g" /\ Sec(k).Q = "g"
      /\ Sec(k).Zdir = -1 /\ Sec(k).Ydir = -1
      /\ Sec(k).Qdir = 1 /\ Sec(k).Pdir = 1

\* C11 witness: the glottal solve of a later frequency has returned in a
\* sweep whose earlier frequency went through a noise-source re-solve
C11_Witness ==
  /\ pc = "sampleG" /\ frame.caller = "tf" /\ frame.i >= 1
  /\ ~frame.needToExtractMatrixF
  /\ m_idxSecNoiseSource >= 0 /\ m_idxSecNoiseSource < lastSec
  /\ \A k \in SecIdx : Sec(k).Zdir = -1 /\ Sec(k).Z = "g"

\* positions of a solve after its precomputation part: the propagating
\* solveWaveProblem, the transfer function samples and the noise-source
\* re-solve
SolvePcs == {"boundary", "zy", "pq", "sampleG", "noise", "sampleN"}

\* what a section holds that is no per-frequency array
FrozenPart(secs) ==
  [ k \in 1..Len(secs) |->
      << secs[k].modesNumber, secs[k].modes, secs[k].junc, secs[k].F >> ]

\* a transfer function without the row of frequency index i
OtherRows(tf, i) == [ f \in (0..(NumFreq - 1)) \ {i} |-> tf[f] ]

\* C12 as stated: after the precomputation a step of a solve writes nothing
\* but the Z, Y, P, Q arrays and direction tags of the sections: no mode,
\* junction matrix or section count, and no member of the simulator
C12_OriginalStep ==
  pc \in SolvePcs =>
    /\ FrozenPart(m_crossSections') = FrozenPart(m_crossSections)
    /\ UNCHANGED << m_geometryImported, m_reloadGeometry, m_geometryFile,
                    m_simuParams, m_mouthBoundaryCond,
                    m_idxSecNoiseSource, m_radiationMatrixInterp,
                    m_lastFreqComputed >>

C12_AmendedStep ==
  pc \in SolvePcs =>
        /\ FrozenPart(m_crossSections') = FrozenPart(m_crossSections)
        /\ UNCHANGED << m_geometryImported, m_reloadGeometry, m_geometryFile,
                        m_mouthBoundaryCond, m_idxSecNoiseSource,
                        m_radiationMatrixInterp >>
        /\ m_simuParams'.needToComputeModesAndJunctions =
             m_simuParams.needToComputeModesAndJunctions
        /\ m_simuParams'.radImpedPrecomputed =
             m_simuParams.radImpedPrecomputed
        /\ m_simuParams'.freqField \in {m_simuParams.freqField, "cur"}
        /\ m_lastFreqComputed' \in {m_lastFreqComputed, "cur"}
        /\ OtherRows(m_glottalSourceTF', frame.i) =
             OtherRows(m_glottalSourceTF, frame.i)
        /\ OtherRows(m_noiseSourceTF', frame.i) =
             OtherRows(m_noiseSourceTF, frame.i)

C13_InstanceConstructedOnce ==
  /\ Cardinality({ t \in DOMAIN threads : threads[t].made # 0 }) <= 1
  /\ \A t, u \in DOMAIN threads :
       (threads[t].pc = "done" /\ threads[u].pc = "done") =>
         threads[t].ret = threads[u].ret

\* index of the last field of an x line that belongs to the contour: the
\* one before the first empty field from field 4 on
RECURSIVE ContourEnd(_, _)
ContourEnd(X, k) ==
  IF k > Len(X) \/ Len(X[k]) = 0 THEN k - 1 ELSE ContourEnd(X, k + 1)

\* the centerline, normal, scaling and contour fields of a slice
SliceFields(X, Y) ==
  { X[k] : k \in 1..ContourEnd(X, 4) }
  \cup { Y[k] : k \in (1..ContourEnd(X, 4)) \cap (1..Len(Y)) }

\* the centerline, normal, scaling and contour fields of a file
FileFields(file) ==
  UNION { SliceFields(file[2 * i - 1], file[2 * i]) :
            i \in 1..(Len(file) \div 2) }

\* the text is a number, possibly followed by white space
ValidNumber(str) ==
  /\ stod(str).thrown = "none"
  /\ \A i \in stod(str).next..Len(str) : IsSpace(str[i])

\* C14: when a centerline, normal, scaling or contour field of the file is
\* no valid number (a lone carriage return left aside), the import returns
\* failure.
C14_InvalidFieldFailsImport ==
  (csv.pc = "done"
     /\ \E f \in FileFields(csv.file) : ~ValidNumber(f) /\ f # << "\r" >>)
  => csv.result = "false"

\* C15: in a file the import accepts, a field that is a lone carriage
\* return adds no point to the contour of its slice: the slice has one point
\* for each contour field of its x line that is no lone carriage return;
\* and the centerline point of the slice is the one its fields give.
C15_CarriageReturnIgnored ==
  (csv.pc = "done" /\ csv.result = "true") =>
    \A i \in 1..Len(csv.raw) :
      LET X == csv.file[2 * i - 1]
          Y == csv.file[2 * i]
      IN /\ Len(csv.raw[i]) =
              Cardinality({ k \in 4..ContourEnd(X, 4) : X[k] # << "\r" >> })
         /\ (ValidNumber(X[1]) /\ ValidNumber(Y[1])) =>
              csv.centerLine[i] = << stod(X[1]).value, stod(Y[1]).value >>

\* C16: every contour of a file the import accepts has at least three
\* vertices in its final form (closing point dropped, simplified).
C16_AcceptedContourHasThreeVertices ==
  (csv.pc = "done" /\ csv.result = "true") =>
    \A i \in 1..Len(csv.contours) : Len(csv.contours[i][1]) >= MinVertices

\* C17: after a successful section build, every section that is neither a
\* junction section nor a radiation section has a length greater than 0.
C17_SectionsHaveLength ==
  (build.pc = "done" /\ build.result) =>
    \A i \in 1..Len(build.m_crossSections) :
      LET sec == build.m_crossSections[i] IN
        (~sec.junction /\ sec.type # "Radiation") => sec.length > 0


\* C18: a query point that some section accepts is sampled from the first
\* such section; the Rayleigh-Sommerfeld integral is evaluated only for a
\* point that no section accepts and that is not before the outlet; every
\* other point yields NaN.
C18_FieldOfFirstAcceptingSection ==
  query.pc = "done" =>
    LET secs == query.m_crossSections
        pt == query.queryPt
        acc == Accepting(secs, pt)
    IN /\ acc # { } =>
            /\ query.field.from = "interiorField"
            /\ query.field.s \in acc
            /\ \A t \in acc : query.field.s <= t
       /\ query.field.from = "RayleighSommerfeldIntegral" =>
            acc = { } /\ pt.x >= ctrLinePtOut(secs[Len(secs)])
       /\ (acc = { } /\ query.field.from # "RayleighSommerfeldIntegral") =>
            query.field.from = "NaN"

\* C19: after a quantity has been propagated through a section of length
\* 0, the section holds exactly one sample of it, the matrix the
\* propagation was started from, and its inlet and outlet values of the
\* quantity are the same.
C19_ZeroLengthCopiesThrough ==
  (magnus.pc = "done" /\ length(magnus.sec) = 0) =>
    /\ magnus.sec[ArrayOf(magnus.quant)] = << magnus.Q0 >>
    /\ In(magnus.sec, magnus.quant) = Out(magnus.sec, magnus.quant)

\* the contours of the sections that are no junction sections, in order
ExportedContours(secs) ==
  SelectSeq([ i \in 1..Len(secs) |->
                IF secs[i].junction THEN << >> ELSE secs[i].contour ],
            LAMBDA c : c # << >>)

\* C20: when the file written for a built geometry has been imported again,
\* the import has succeeded and its contour list is the one of the
\* geometry: as many slices, in the same order, each contour with the same
\* vertices.
C20_RoundTripKeepsContours ==
  (exportGeo.pc = "imported" /\ csv.pc = "done") =>
    /\ csv.result = "true"
    /\ [ i \in 1..Len(csv.contours) |-> csv.contours[i][1] ]
         = ExportedContours(exportGeo.m_crossSections)

\* the options of a generator call are inconsistent: an inner radius not
\* smaller than the outer radius, a non-positive inner radius or height, a
\* bend radius not larger than the outer radius
InconsistentOptions ==
  IF generator.tool = "hollow_cylinder"
    THEN \/ generator.inner_radius >= generator.outer_radius
         \/ generator.inner_radius <= 0
         \/ generator.height <= 0
  ELSE \/ generator.start_inner_radius >= generator.start_outer_radius
       \/ generator.end_inner_radius >= generator.end_outer_radius
       \/ generator.start_inner_radius <= 0
       \/ generator.end_inner_radius <= 0
       \/ generator.bend_radius <= generator.start_outer_radius
       \/ generator.bend_radius <= generator.end_outer_radius

\* C21: a generator called with inconsistent options returns failure and
\* leaves the output file as it was, absent or with its former content.
C21_InconsistentOptionsWriteNothing ==
  (generator.pc = "done" /\ InconsistentOptions)
    => (generator.ret = FALSE /\ generator.file = generator.before)

\* a call with inconsistent options has returned while the output file
\* existed and could have been opened
C21_Witness ==
  /\ generator.pc = "done"
  /\ InconsistentOptions
  /\ generator.canOpen
  /\ generator.before = "other"
  /\ generator.sections > 0

\* C22: through a FEM section of length > 0 the axial step of a Magnus
\* propagation has the sign of the propagation direction, +length/(numX-1)
\* for direction +1 and -length/(numX-1) for direction -1, whatever the
\* quantity.
C22_StepFollowsDirection ==
  (magnus.pc = "done" /\ magnus.sec.type = "FEM" /\ magnus.sec.m_length > 0)
    => magnus.dX = << magnus.direction * magnus.sec.m_length,
                      magnus.numX - 1 >>

\* C27: in the sections createCrossSections has built, each section but the
\* last is linked to the section of the next index: section i+1 is among the
\* next sections of section i, also where several junction sections lie
\* between two slices.
C27_NeighboursAreLinked ==
  build.pc = "done"
    => \A p \in 1..(Len(build.m_crossSections) - 1) :
         \E j \in 1..Len(build.m_crossSections[p].m_nextSections) :
           build.m_crossSections[p].m_nextSections[j] = p

\* the sections from the start section to the end section of a call of the
\* branching propagator
Between ==
  { x \in 0..(Len(branch.m_crossSections) - 1) :
      /\ x >= (IF branch.direction > 0 THEN branch.startSections[1]
               ELSE branch.endSections[1])
      /\ x <= (IF branch.direction > 0 THEN branch.endSections[1]
               ELSE branch.startSections[1]) }

C25_TagIsDirectionOfSamples ==
  branch.pc # "none"
    => \A x \in 1..Len(branch.m_crossSections) :
         /\ branch.Zdir[x] \in { -1, 1 }
         /\ branch.written[x] # 0 => branch.Zdir[x] = branch.written[x]

AxialPosition(numX, dir, t) == IF dir = 1 THEN t ELSE numX - 1 - t

\* C24: when pressure (velocity) has been propagated through a FEM section
\* of length > 0, the index read at each integration step lies inside the
\* admittance (impedance) samples the section holds, and the sample read is
\* the one stored for the axial position of the node the step starts from.
C24_CoefficientOfSamePosition ==
  (/\ magnus.pc = "done"
   /\ magnus.sec.type = "FEM"
   /\ magnus.sec.m_length > 0
   /\ magnus.quant \in { "PRESSURE", "VELOCITY" })
    => \A i \in 0..(magnus.numX - 2) :
         /\ magnus.reads[i + 1] >= 0
         /\ magnus.reads[i + 1]
              < Len(magnus.sec[IF magnus.quant = "PRESSURE"
                                 THEN "m_admittance" ELSE "m_impedance"])
         /\ AxialPosition(
              magnus.numX,
              magnus.sec.m_direction[IF magnus.quant = "PRESSURE"
                                       THEN "ADMITTANCE" ELSE "IMPEDANCE"],
              magnus.sec[IF magnus.quant = "PRESSURE"
                           THEN "m_admittance" ELSE "m_impedance"][
                magnus.reads[i + 1] + 1].steps)
            = AxialPosition(magnus.numX, magnus.direction, i)

\* pressure has been propagated in three steps through a section of
\* length > 0 that holds admittance samples
C24_Witness ==
  /\ magnus.pc = "done"
  /\ magnus.sec.type = "FEM"
  /\ magnus.sec.m_length > 0
  /\ magnus.quant = "PRESSURE"
  /\ Len(magnus.reads) = 2
  /\ Len(magnus.sec.m_admittance) = 3

\* C28: a solve that interpolates its radiation impedance does so from
\* spline coefficients computed for the geometry it solves: once the section
\* list has been rebuilt, the "spline precomputed" mark no longer selects the
\* coefficients of the former geometry.
C28_NoSplineOfAnotherGeometry ==
  (pc \in PropagationPcs /\ radMat.src = "interp") =>
    radMat.coef.geo = numSec

\* C29: when the noise-source re-solve passes its test of the index and
\* reads sections k and k + 1, k is the index of a section before the last
\* one: 0 <= k < lastSec.
C29_NoiseIndexInsideSections ==
  (pc = "noise" /\ m_idxSecNoiseSource < lastSec) =>
    (0 <= m_idxSecNoiseSource /\ m_idxSecNoiseSource + 1 <= lastSec)

\* C30: the mode selection reads eigenvalues() inside the computed list only
\* and writes the first eigenfrequency into a list that has an element.
C30_SelectionStaysInsideLists ==
  (modal # NoCall /\ modal.pc # "call") =>
    /\ \A i \in modal.reads : i < Len(modal.eigenvalues)
    /\ modal.sizeAtWrite >= 1

=============================================================================
